---- MODULE Spec2Model ----
(***************************************************************************)
(* Verification model of the HE2 Toolbox template and parameter engine:    *)
(*   modules/hson_template.py   schema resolver, marshaller, re-nesting    *)
(*   modules/hson_module.py     flatten_dict of the HSON importer          *)
(*   modules/blendhog_addon.py  segment matching and parameter transfer    *)
(*                                                                         *)
(* Strings the code takes apart (parameter keys, parameter names) are      *)
(* sequences of one-character strings, so that split, join, lower and the  *)
(* regular expressions are computed character by character.  Python values *)
(* are tagged records [k |-> kind, v |-> payload].                         *)
(***************************************************************************)
EXTENDS Integers, Sequences, FiniteSets, TLC

VARIABLES
    structs,        \* template_data["structs"]: name -> [parent, fields]
    enums,          \* template_data["enums"]: [has, tab], tab: name -> enum
    objects,        \* template_data["objects"]: type name -> [struct, defaults]
    rs_name,        \* get_struct_fields: the struct name of the outermost call
    rs_call,        \* the struct name of the call being entered
    rs_stack,       \* the frames waiting for their recursive call to return
    rs_visited,     \* the _visited set shared by the call chain
    rs_ret,         \* the list returned by the call that last returned
    rs_pc,          \* "idle" | "call" | "ret" | "done"
    ms_base,        \* match_segment: base_h
    ms_segs,        \* match_segment: segs
    ms_result,      \* match_segment: the value returned
    ms_pc,          \* "idle" | "done"
    nt_tree,        \* the nested parameter tree handed to flatten_dict
    nt_flat,        \* flatten_dict(nt_tree)
    nt_nested,      \* nest_parameters(nt_flat)
    nt_pc,          \* "idle" | "flat" | "done"
    obj_type,       \* apply_hson_template_to_object: obj.data.name
    imported_params,\* the flat bag handed in (NoneV when the caller gives none)
    ap_params,      \* the local dict params when the call returned
    ap_types,       \* the local dict types when the call returned
    ap_result,      \* what the call returned: [success, message, arity]
    ap_calls,       \* how many times the template was applied to the object
    hson_parameters,\* obj.hson_parameters: the records of the object
    hson_uuid,      \* obj.hson_uuid
    enum_props,     \* the hson_enum_* properties set on the object
    context_object, \* bpy.context.object: "obj" (the object) | "other" | "none"
    special_aliases,    \* blendhog_addon.special_aliases, the module global
    excluded_parameters,\* blendhog_addon.excluded_parameters, the module global
    parameters_json,    \* the contents of modules/parameters.json
    json_parameters,    \* obj.json_parameters: the target records of the object
    transferred,        \* execute: the set transferred when the call returned
    not_transferred,    \* execute: the set not_transferred when the call returned
    tr_before,          \* obj.json_parameters when the last transfer began
    tr_calls,           \* how many times the transfer ran on the object
    later_objects,      \* context.selected_objects after the object: their records
    later_sets,         \* execute: the two sets of each later object
    main_result,        \* the __main__ block: "none" | "raised" | "registered"
    im_ops,         \* the import operators started: kind, files, status, own attributes
    im_queue,       \* _objects_to_process, the list of each importer class
    im_xml_imported,\* OBJECT_OT_import_xml._imported_objects, the dict of the class
    im_disk,        \* the template file: [exists, valid, mtime, version]
    im_tick,        \* the process_batch that is running: [op, count]
    im_log,         \* the records taken from a queue, in the order taken
    mg_sub,         \* the parent merge of an inline sub-struct: the sub-struct's name
    mg_parent,      \* the loop variable parent
    mg_turns,       \* how many times the body of the loop ran
    mg_pc           \* "idle" | "loop" | "done" | "raised"

tdVars == <<structs, enums, objects>>
rsVars == <<rs_name, rs_call, rs_stack, rs_visited, rs_ret, rs_pc>>
msVars == <<ms_base, ms_segs, ms_result, ms_pc>>
ntVars == <<nt_tree, nt_flat, nt_nested, nt_pc>>
apVars ==
    <<obj_type, imported_params, ap_params, ap_types, ap_result, ap_calls,
      hson_parameters, hson_uuid, enum_props, context_object>>

trVars ==
    <<special_aliases, excluded_parameters, parameters_json, json_parameters,
      transferred, not_transferred, tr_before, tr_calls, later_objects, later_sets,
      main_result>>

imVars == <<im_ops, im_queue, im_xml_imported, im_disk, im_tick, im_log>>

mgVars == <<mg_sub, mg_parent, mg_turns, mg_pc>>

vars == <<tdVars, rsVars, msVars, ntVars, apVars, trVars, imVars, mgVars>>

(***************************************************************************)
(* Strings                                                                 *)
(***************************************************************************)
Digits == {"0", "1", "2", "3", "4", "5", "6", "7", "8", "9"}

Alphabet ==
    [upper |-> <<"A", "B", "C", "D", "E", "F", "G", "H", "I", "J", "K", "L", "M",
                 "N", "O", "P", "Q", "R", "S", "T", "U", "V", "W", "X", "Y", "Z">>,
     lower |-> <<"a", "b", "c", "d", "e", "f", "g", "h", "i", "j", "k", "l", "m",
                 "n", "o", "p", "q", "r", "s", "t", "u", "v", "w", "x", "y", "z">>]

UpperLetters == {Alphabet.upper[i] : i \in 1..26}

LowerLetters == {Alphabet.lower[i] : i \in 1..26}

\* str.lower() of one character
LowerChar(c) ==
    IF c \in UpperLetters THEN Alphabet.lower[CHOOSE i \in 1..Len(Alphabet.upper) : Alphabet.upper[i] = c] ELSE c

Lower(s) == [i \in 1..Len(s) |-> LowerChar(s[i])]

\* s.split(sep) for a one-character separator: always at least one part.
RECURSIVE SplitFrom(_, _, _)
SplitFrom(s, sep, cur) ==
    IF s = <<>> THEN <<cur>>
    ELSE IF Head(s) = sep THEN <<cur>> \o SplitFrom(Tail(s), sep, <<>>)
    ELSE SplitFrom(Tail(s), sep, Append(cur, Head(s)))

Split(s, sep) == SplitFrom(s, sep, <<>>)

\* sep.join(parts)
RECURSIVE Join(_, _)
Join(parts, sep) ==
    IF parts = <<>> THEN <<>>
    ELSE IF Len(parts) = 1 THEN parts[1]
    ELSE parts[1] \o <<sep>> \o Join(Tail(parts), sep)

(***************************************************************************)
(* Python values                                                           *)
(***************************************************************************)
\* A value of kind k: "int", "float" (v = n stands for the float n.0),
\* "bool", "str" (v the characters), "list" (v the elements), "dict".
Val(k, v) == [k |-> k, v |-> v]
NoneV     == [k |-> "none",  v |-> 0]
\* A dict keeps its insertion order: its v is a sequence of <<key, value>>
\* pairs with pairwise different keys.
EmptyDict == Val("dict", <<>>)

DictKeys(d) == [i \in 1..Len(d.v) |-> d.v[i][1]]

DictHas(d, key) == \E i \in 1..Len(d.v) : d.v[i][1] = key

DictGet(d, key) == d.v[CHOOSE i \in 1..Len(d.v) : d.v[i][1] = key][2]

\* d[key] = val: an existing key keeps its place, a new key goes last.
DictSet(d, key, val) ==
    IF DictHas(d, key)
    THEN Val("dict", [i \in 1..Len(d.v) |-> IF d.v[i][1] = key THEN <<key, val>> ELSE d.v[i]])
    ELSE Val("dict", Append(d.v, <<key, val>>))

\* Python's == on dicts and lists: dicts compare as mappings, whatever the
\* insertion order; lists compare element by element.
RECURSIVE Canon(_)
Canon(x) ==
    IF x.k = "dict"
    THEN [k |-> "dict",
          v |-> [key \in {x.v[i][1] : i \in 1..Len(x.v)} |-> Canon(DictGet(x, key))]]
    ELSE IF x.k = "list"
    THEN [k |-> "list", v |-> [i \in 1..Len(x.v) |-> Canon(x.v[i])]]
    ELSE x

PyEq(x, y) == Canon(x) = Canon(y)

(***************************************************************************)
(* Schema: struct definitions                                              *)
(***************************************************************************)
\* A field declaration of a struct; subtype "" and array_size 0 stand for
\* an absent "subtype" / "array_size" key.
FieldDef(n, t) == [name |-> n, type |-> t, subtype |-> "", array_size |-> 0]

\* structs.get(struct_name, {}): an unknown struct has no parent, no fields.
StructGet(ss, struct_name) ==
    IF struct_name \in DOMAIN ss THEN ss[struct_name]
    ELSE [parent |-> "", fields |-> <<>>]

(***************************************************************************)
(* get_struct_fields as a pure function.  The visited set is one mutable   *)
(* set shared down the call chain; each call has at most one recursive     *)
(* call, so passing the grown set down is the same thing.                  *)
(***************************************************************************)
RevisitResult(ss, struct_name) == <<>>

\* Faulty variant: a struct's own fields come before those of its ancestors.
RECURSIVE GetStructFieldsOwnFirst(_, _, _)
GetStructFieldsOwnFirst(ss, struct_name, visited) ==
    IF struct_name \in visited THEN RevisitResult(ss, struct_name)
    ELSE LET struct_def == StructGet(ss, struct_name)
             parent     == struct_def.parent
         IN  struct_def.fields
             \o (IF parent # ""
                 THEN GetStructFieldsOwnFirst(ss, parent, visited \cup {struct_name})
                 ELSE <<>>)

RECURSIVE GetStructFields(_, _, _)
GetStructFields(ss, struct_name, visited) ==
    IF struct_name \in visited THEN RevisitResult(ss, struct_name)
    ELSE LET struct_def == StructGet(ss, struct_name)
             parent     == struct_def.parent
         IN  (IF parent # ""
                 THEN GetStructFields(ss, parent, visited \cup {struct_name})
                 ELSE <<>>)
             \o struct_def.fields

(***************************************************************************)
(* get_struct_fields call by call: RsEnter is the body of one call up to   *)
(* its recursive call (or its return when there is none), RsReturn is the  *)
(* rest of the caller's body after the recursive call returned.            *)
(***************************************************************************)
MaxDepth == 5

\* Faulty variant: the parent's fields are appended after the struct's own fields.
ExtendOwnFirst(parent_fields, own_fields) == own_fields \o parent_fields

ExtendFields(parent_fields, own_fields) == parent_fields \o own_fields

\* Faulty variant: the guard `if struct_name in _visited` never fires.
VisitedNever(struct_name, visited) == FALSE

Visited(struct_name, visited) == struct_name \in visited

ResolveNames == {"A", "B", "C", "Missing"}

RsStart(n) ==
    /\ rs_pc = "idle"
    /\ rs_name' = n
    /\ rs_call' = n
    /\ rs_visited' = {}
    /\ rs_stack' = <<>>
    /\ rs_ret' = <<>>
    /\ rs_pc' = "call"
    /\ UNCHANGED <<structs, enums, objects, msVars, ntVars, apVars, trVars, imVars, mgVars>>

RsEnter ==
    /\ rs_pc = "call"
    /\ IF Visited(rs_call, rs_visited)
       THEN /\ rs_ret' = <<>>
            /\ rs_pc' = "ret"
            /\ UNCHANGED <<rs_call, rs_stack, rs_visited>>
       ELSE LET struct_def == StructGet(structs, rs_call)
            IN  /\ rs_visited' = rs_visited \cup {rs_call}
                /\ IF struct_def.parent # ""
                   THEN /\ Len(rs_stack) < MaxDepth
                        /\ rs_stack' = Append(rs_stack, rs_call)
                        /\ rs_call' = struct_def.parent
                        /\ UNCHANGED <<rs_ret, rs_pc>>
                   ELSE /\ rs_ret' = ExtendFields(<<>>, struct_def.fields)
                        /\ rs_pc' = "ret"
                        /\ UNCHANGED <<rs_call, rs_stack>>
    /\ UNCHANGED <<structs, rs_name, enums, objects, msVars, ntVars, apVars, trVars, imVars, mgVars>>

RsReturn ==
    /\ rs_pc = "ret"
    /\ IF rs_stack = <<>>
       THEN /\ rs_pc' = "done"
            /\ UNCHANGED <<rs_ret, rs_stack>>
       ELSE LET caller == rs_stack[Len(rs_stack)]
            IN  /\ rs_ret' = ExtendFields(rs_ret, StructGet(structs, caller).fields)
                /\ rs_stack' = SubSeq(rs_stack, 1, Len(rs_stack) - 1)
                /\ UNCHANGED rs_pc
    /\ UNCHANGED <<structs, rs_name, rs_call, rs_visited, enums, objects, msVars, ntVars, apVars, trVars, imVars, mgVars>>

\* The schemas of the resolver runs: three structs with fixed, pairwise
\* different field lists and every choice of parent (none, another struct,
\* itself, a struct the schema does not define).
ResolveSchemas ==
    LET ResolveFields ==
            [A |-> <<FieldDef("a1", "float"), FieldDef("a2", "int")>>,
             B |-> <<FieldDef("b1", "bool")>>,
             C |-> <<FieldDef("c1", "string"), FieldDef("c2", "float")>>]
    IN  { [s \in {"A", "B", "C"} |-> [parent |-> p[s], fields |-> ResolveFields[s]]] :
            p \in [{"A", "B", "C"} -> {"", "A", "B", "C", "Missing"}] }

\* template_data with the key "enums" and the enums of tab.
EnumsOf(tab) == [has |-> TRUE, tab |-> tab]

NoEnums == EnumsOf(<<>>)

\* template_data without the key "enums".
MissingEnums == [has |-> FALSE, tab |-> <<>>]

Absent == [k |-> "absent", v |-> 0]

\* The components not in busy are as the program starts them: no call of
\* the resolver, of match_segment or of the re-nesting is in progress, no
\* template has been applied, the object carries no record, the module's
\* two globals are the empty lists of its import and nothing was
\* transferred.
Idle(busy) ==
    /\ rs_name = ""
    /\ rs_call = ""
    /\ rs_stack = <<>>
    /\ rs_visited = {}
    /\ rs_ret = <<>>
    /\ rs_pc = "idle"
    /\ ms_base = <<>>
    /\ ms_segs = <<>>
    /\ ms_result = FALSE
    /\ ms_pc = "idle"
    /\ "nest" \notin busy =>
          /\ nt_tree = EmptyDict
          /\ nt_flat = EmptyDict
          /\ nt_nested = EmptyDict
          /\ nt_pc = "idle"
    /\ "apply" \notin busy =>
          /\ obj_type = <<>>
          /\ imported_params = NoneV
    /\ ap_params = EmptyDict
    /\ ap_types = EmptyDict
    /\ ap_result = [success |-> FALSE, message |-> "", arity |-> 0]
    /\ ap_calls = 0
    /\ enum_props = EmptyDict
    /\ "object" \notin busy =>
          /\ hson_parameters = <<>>
          /\ hson_uuid = ""
          /\ context_object = "other"
    /\ special_aliases = Val("list", <<>>)
    /\ excluded_parameters = Val("list", <<>>)
    /\ "transfer" \notin busy =>
          /\ parameters_json = [special_aliases |-> <<>>, excluded_parameters |-> <<>>]
          /\ json_parameters = <<>>
          /\ later_objects = <<>>
    /\ later_sets = <<>>
    /\ transferred = {}
    /\ not_transferred = {}
    /\ tr_before = <<>>
    /\ tr_calls = 0
    /\ main_result = "none"
    /\ "import" \notin busy =>
          /\ im_ops = <<>>
          /\ im_disk = [exists |-> FALSE, valid |-> FALSE, mtime |-> 0, version |-> 0]
    /\ im_queue = [hson |-> <<>>, xml |-> <<>>]
    /\ im_xml_imported = <<>>
    /\ im_tick = [op |-> 0, count |-> 0]
    /\ im_log = <<>>
    /\ mg_sub = ""
    /\ mg_parent = ""
    /\ mg_turns = 0
    /\ mg_pc = "idle"

InitResolve ==
    /\ structs \in ResolveSchemas
    /\ enums = NoEnums
    /\ objects = EmptyDict
    /\ Idle({})

NextResolve ==
    \/ \E n \in ResolveNames : RsStart(n)
    \/ RsEnter
    \/ RsReturn

\* The interpreter runs a call to its end: no step of it waits forever.
SpecResolve == InitResolve /\ [][NextResolve]_vars /\ WF_vars(RsEnter) /\ WF_vars(RsReturn)

(***************************************************************************)
(* Parent chains                                                           *)
(***************************************************************************)
\* The chain struct_name, its parent, its grandparent, ... cut after the
\* first n names (or where it ends).
RECURSIVE ChainOf(_, _, _)
ChainOf(ss, struct_name, n) ==
    IF n = 0 \/ struct_name = "" THEN <<>>
    ELSE <<struct_name>> \o ChainOf(ss, StructGet(ss, struct_name).parent, n - 1)

NoRepeat(s) == \A i, j \in 1..Len(s) : i # j => s[i] # s[j]

\* The chain from struct_name is acyclic: it ends before a name repeats.
Acyclic(ss, struct_name) ==
    LET n == Cardinality(DOMAIN ss) + 2
        c == ChainOf(ss, struct_name, n)
    IN  Len(c) < n /\ NoRepeat(c)

\* The longest prefix of the chain without a repeated name.
RECURSIVE CyclePrefix(_, _, _)
CyclePrefix(ss, struct_name, seen) ==
    IF struct_name = "" \/ struct_name \in seen THEN <<>>
    ELSE <<struct_name>>
         \o CyclePrefix(ss, StructGet(ss, struct_name).parent, seen \cup {struct_name})

\* The fields of the structs of a chain, last struct of the chain first.
RECURSIVE RootFirst(_, _)
RootFirst(ss, chain) ==
    IF chain = <<>> THEN <<>>
    ELSE RootFirst(ss, Tail(chain)) \o StructGet(ss, Head(chain)).fields

RECURSIVE SumLen(_, _)
SumLen(ss, chain) ==
    IF chain = <<>> THEN 0
    ELSE Len(StructGet(ss, Head(chain)).fields) + SumLen(ss, Tail(chain))

\* C1: for a struct name with an acyclic parent chain the resolver returns
\* the fields of the root ancestor first, then each descendant's in turn,
\* the struct's own fields last, each struct's fields in declaration order;
\* the call-by-call run and the function agree on it.
C1_AncestorsFirst ==
    (rs_pc = "done" /\ Acyclic(structs, rs_name)) =>
        /\ rs_ret = RootFirst(structs, ChainOf(structs, rs_name, Cardinality(DOMAIN structs) + 2))
        /\ GetStructFields(structs, rs_name, {}) = rs_ret

\* A run over a three-level acyclic chain has returned.
C1_Witness ==
    /\ rs_pc = "done"
    /\ Acyclic(structs, rs_name)
    /\ Len(ChainOf(structs, rs_name, 5)) = 3
    /\ Len(rs_ret) = 5

\* C2: for a struct name whose parent chain runs into a cycle the resolver
\* terminates, and its result holds the fields of each struct of the chain
\* at most once: it is no longer than the fields of the non-cyclic prefix.
C2_CycleTerminates ==
    /\ [](rs_pc = "call" => <>(rs_pc = "done"))
    /\ []((rs_pc = "done" /\ ~Acyclic(structs, rs_name)) =>
            /\ Len(rs_ret) <= SumLen(structs, CyclePrefix(structs, rs_name, {}))
            /\ NoRepeat(rs_ret)
            /\ Len(GetStructFields(structs, rs_name, {})) <= SumLen(structs, CyclePrefix(structs, rs_name, {}))
            /\ NoRepeat(GetStructFields(structs, rs_name, {})))

\* A run over a chain that cycles through all three structs has returned.
C2_Witness ==
    /\ rs_pc = "done"
    /\ ~Acyclic(structs, rs_name)
    /\ Len(CyclePrefix(structs, rs_name, {})) = 3
    /\ Len(rs_ret) = 5

(***************************************************************************)
(* Segment matching (blendhog_addon.py)                                    *)
(***************************************************************************)
\* re.sub(r'[^0-9a-z]', '', seg.lower())
normalize_segment(seg) ==
    SelectSeq(Lower(seg), LAMBDA c : c \in LowerLetters \cup Digits)

\* Faulty variant: the window is compared part by part as a set, losing the order.
WindowEqualsUnordered(segs_norm, i, base_parts) ==
    /\ i + Len(base_parts) <= Len(segs_norm)
    /\ {segs_norm[i + j] : j \in 1..Len(base_parts)}
         = {base_parts[j] : j \in 1..Len(base_parts)}

\* segs_norm[i:i+len(base_parts)] == base_parts, i counted from 0
WindowEquals(segs_norm, i, base_parts) ==
    SubSeq(segs_norm, i + 1, i + Len(base_parts)) = base_parts

\* for i in range(len(segs_norm) - len(base_parts) + 1): ... return True
RECURSIVE MatchLoop(_, _, _)
MatchLoop(segs_norm, base_parts, i) ==
    IF i >= Len(segs_norm) - Len(base_parts) + 1 THEN FALSE
    ELSE IF WindowEquals(segs_norm, i, base_parts) THEN TRUE
    ELSE MatchLoop(segs_norm, base_parts, i + 1)

match_segment(base_h, segs) ==
    LET base_parts == [i \in 1..Len(Split(base_h, ":")) |->
                          normalize_segment(Split(base_h, ":")[i])]
        segs_norm  == [i \in 1..Len(segs) |-> normalize_segment(segs[i])]
    IN  MatchLoop(segs_norm, base_parts, 0)

MaxSegs == 4

RECURSIVE SeqsUpTo(_, _)
SeqsUpTo(S, n) ==
    IF n = 0 THEN {<<>>}
    ELSE LET shorter == SeqsUpTo(S, n - 1)
         IN  shorter \cup {Append(s, x) : s \in {q \in shorter : Len(q) = n - 1}, x \in S}

MsCall(base_h, segs) ==
    /\ ms_pc = "idle"
    /\ ms_base' = base_h
    /\ ms_segs' = segs
    /\ ms_result' = match_segment(base_h, segs)
    /\ ms_pc' = "done"
    /\ UNCHANGED <<tdVars, rsVars, ntVars, apVars, trVars, imVars, mgVars>>

MsReset ==
    /\ ms_pc = "done"
    /\ ms_base' = <<>>
    /\ ms_segs' = <<>>
    /\ ms_result' = FALSE
    /\ ms_pc' = "idle"
    /\ UNCHANGED <<tdVars, rsVars, ntVars, apVars, trVars, imVars, mgVars>>

InitMatch ==
    /\ structs = <<>>
    /\ enums = NoEnums
    /\ objects = EmptyDict
    /\ Idle({})

NextMatch ==
    \/ /\ ms_pc = "idle"
       /\ \E base_h \in { <<"a", ":", "b">>, <<"a">>, <<"b", ":", "a">>, <<"A", ":", "b", "_">>,
                          <<"x", ":", "a", ":", "b">>, <<"a", ":">>, <<>> },
             segs \in SeqsUpTo({ <<"a">>, <<"b">>, <<"x">>, <<"y">>, <<"A", "_">>, <<"_">> },
                               MaxSegs) :
             MsCall(base_h, segs)
    \/ MsReset

SpecMatch == InitMatch /\ [][NextMatch]_vars

\* parts occurs in segs as a contiguous run, in order, at some offset.
ContiguousRun(parts, segs) ==
    \E off \in 0..(Len(segs) - Len(parts)) :
        \A j \in 1..Len(parts) : segs[off + j] = parts[j]

\* C6: match_segment(base, segs) is true exactly when the normalized
\* ':'-separated parts of base occur in the normalized segs as a contiguous
\* run in the same order; "a:b" matches [x, a, b, y] and not [a, x, b].
C6_ContiguousMatch ==
    ms_pc = "done" =>
        /\ ms_result =
             ContiguousRun([i \in 1..Len(Split(ms_base, ":")) |->
                               normalize_segment(Split(ms_base, ":")[i])],
                           [i \in 1..Len(ms_segs) |-> normalize_segment(ms_segs[i])])
        /\ (ms_base = <<"a", ":", "b">> /\ ms_segs = << <<"x">>, <<"a">>, <<"b">>, <<"y">> >>)
              => ms_result = TRUE
        /\ (ms_base = <<"a", ":", "b">> /\ ms_segs = << <<"a">>, <<"x">>, <<"b">> >>)
              => ms_result = FALSE

\* "a:b" has been matched against [x, a, b, y] and found.
C6_Witness ==
    /\ ms_pc = "done"
    /\ ms_base = <<"a", ":", "b">>
    /\ ms_segs = << <<"x">>, <<"a">>, <<"b">>, <<"y">> >>
    /\ ms_result = TRUE

(***************************************************************************)
(* flatten_dict (hson_module.py) and nest_parameters (hson_template.py)    *)
(***************************************************************************)
\* items.update(other): every pair of other is assigned in turn.
RECURSIVE DictUpdate(_, _)
DictUpdate(d, other) ==
    IF other.v = <<>> THEN d
    ELSE DictUpdate(DictSet(d, other.v[1][1], other.v[1][2]), Val("dict", Tail(other.v)))

RECURSIVE FlattenFrom(_, _, _, _)
flatten_dict(d, parent_key, sep) == FlattenFrom(d.v, parent_key, sep, EmptyDict)

FlattenFrom(pairs, parent_key, sep, items) ==
    IF pairs = <<>> THEN items
    ELSE LET key     == pairs[1][1]
             v       == pairs[1][2]
             new_key == IF parent_key # <<>> THEN parent_key \o <<sep>> \o key ELSE key
         IN  FlattenFrom(Tail(pairs), parent_key, sep,
                 IF v.k = "dict"
                 THEN DictUpdate(items, flatten_dict(v, new_key, sep))
                 ELSE DictSet(items, new_key, v))

DigitVal(c) ==
    CASE c = "0" -> 0 [] c = "1" -> 1 [] c = "2" -> 2 [] c = "3" -> 3 [] c = "4" -> 4
      [] c = "5" -> 5 [] c = "6" -> 6 [] c = "7" -> 7 [] c = "8" -> 8 [] c = "9" -> 9

\* int(s) for a string of decimal digits
RECURSIVE IntOf(_)
IntOf(s) == IF s = <<>> THEN 0 ELSE 10 * IntOf(SubSeq(s, 1, Len(s) - 1)) + DigitVal(s[Len(s)])

NameChars == LowerLetters \cup UpperLetters \cup {"_"}

\* The length of the longest prefix of part made of [a-zA-Z_].
RECURSIVE NamePrefixLen(_)
NamePrefixLen(part) ==
    IF part = <<>> \/ Head(part) \notin NameChars THEN 0
    ELSE 1 + NamePrefixLen(Tail(part))

\* re.match(r"^([a-zA-Z_]+)(\d+)$", part): a non-empty name, then nothing
\* but one or more digits.
IndexMatch(part) ==
    LET n == NamePrefixLen(part)
    IN  /\ n >= 1
        /\ n < Len(part)
        /\ \A i \in (n + 1)..Len(part) : part[i] \in Digits

IndexBase(part) == SubSeq(part, 1, NamePrefixLen(part))

IndexIdx(part) == IntOf(SubSeq(part, NamePrefixLen(part) + 1, Len(part)))

\* while len(current) <= idx: current.append({})
RECURSIVE PadList(_, _)
PadList(lst, idx) == IF Len(lst) > idx THEN lst ELSE PadList(Append(lst, EmptyDict), idx)

\* The inner loop of nest_parameters over the parts of one key, from the
\* dict `current`: [node |-> current afterwards, ok |-> no exception raised].
\* Stepping into a list element that is not a dict raises TypeError at the
\* next part, after the list was created and padded.
RECURSIVE NestParts(_, _, _)
NestParts(current, parts, value) ==
    LET part == Head(parts)
        last == Len(parts) = 1
    IN  IF IndexMatch(part)
        THEN LET base == IndexBase(part)
                 idx  == IndexIdx(part)
                 lst0 == IF DictHas(current, base) /\ DictGet(current, base).k = "list"
                         THEN DictGet(current, base).v ELSE <<>>
                 lst1 == PadList(lst0, idx)
             IN  IF last
                 THEN [node |-> DictSet(current, base,
                                    Val("list", [lst1 EXCEPT ![idx + 1] = value])),
                       ok |-> TRUE]
                 ELSE IF lst1[idx + 1].k = "dict"
                 THEN LET r == NestParts(lst1[idx + 1], Tail(parts), value)
                      IN  [node |-> DictSet(current, base,
                                        Val("list", [lst1 EXCEPT ![idx + 1] = r.node])),
                           ok |-> r.ok]
                 ELSE [node |-> DictSet(current, base, Val("list", lst1)), ok |-> FALSE]
        ELSE IF last
             THEN [node |-> DictSet(current, part, value), ok |-> TRUE]
             ELSE LET sub == IF DictHas(current, part) /\ DictGet(current, part).k = "dict"
                             THEN DictGet(current, part) ELSE EmptyDict
                      r   == NestParts(sub, Tail(parts), value)
                  IN  [node |-> DictSet(current, part, r.node), ok |-> r.ok]

\* for key, value in flat_params.items(): ...; an exception ends the loop
\* and the tree built so far is returned.
RECURSIVE NestFrom(_, _)
NestFrom(pairs, nested) ==
    IF pairs = <<>> THEN nested
    ELSE LET r == NestParts(nested, Split(pairs[1][1], ":"), pairs[1][2])
         IN  IF r.ok THEN NestFrom(Tail(pairs), r.node) ELSE r.node

nest_parameters(flat_params) == NestFrom(flat_params.v, EmptyDict)

MaxWidth == 2

MaxTreeDepth == 2

\* The dicts of at most `width` entries, keys from K, values from V.
RECURSIVE DictsOver(_, _, _)
DictsOver(K, V, width) ==
    IF width = 0 THEN {EmptyDict}
    ELSE LET smaller == DictsOver(K, V, width - 1)
         IN  smaller \cup
             UNION { { Val("dict", Append(d.v, <<key, val>>)) :
                         key \in {q \in K : ~DictHas(d, q)}, val \in V } :
                     d \in {s \in smaller : Len(s.v) = width - 1} }

RECURSIVE TreesOf(_)
TreesOf(depth) ==
    IF depth = 0 THEN {}
    ELSE DictsOver({ <<"a">>, <<"b">>, <<"a", "0">>, <<"a", "1">> },
                   {Val("int", 1)} \cup TreesOf(depth - 1), MaxWidth)

NtFlatten ==
    /\ nt_pc = "idle"
    /\ nt_flat' = flatten_dict(nt_tree, <<>>, ":")
    /\ nt_pc' = "flat"
    /\ UNCHANGED <<nt_tree, nt_nested, tdVars, rsVars, msVars, apVars, trVars, imVars, mgVars>>

NtNest ==
    /\ nt_pc = "flat"
    /\ nt_nested' = nest_parameters(nt_flat)
    /\ nt_pc' = "done"
    /\ UNCHANGED <<nt_tree, nt_flat, tdVars, rsVars, msVars, apVars, trVars, imVars, mgVars>>

InitNest ==
    /\ structs = <<>>
    /\ enums = NoEnums
    /\ objects = EmptyDict
    /\ nt_tree \in TreesOf(MaxTreeDepth)
    /\ nt_flat = EmptyDict
    /\ nt_nested = EmptyDict
    /\ nt_pc = "idle"
    /\ Idle({"nest"})

SpecNest == InitNest /\ [][NtFlatten \/ NtNest]_vars

\* A tree has no array-index gap when, in each of its dicts, the keys of
\* the form name<digits> with one name carry the indices 0..n-1.
RECURSIVE NoIndexGaps(_)
NoIndexGaps(x) ==
    IF x.k = "dict"
    THEN /\ \A i \in 1..Len(x.v) :
              IndexMatch(x.v[i][1]) =>
                  \A j \in 0..(IndexIdx(x.v[i][1]) - 1) :
                      \E m \in 1..Len(x.v) :
                          /\ IndexMatch(x.v[m][1])
                          /\ IndexBase(x.v[m][1]) = IndexBase(x.v[i][1])
                          /\ IndexIdx(x.v[m][1]) = j
         /\ \A i \in 1..Len(x.v) : NoIndexGaps(x.v[i][2])
    ELSE IF x.k = "list" THEN \A i \in 1..Len(x.v) : NoIndexGaps(x.v[i])
    ELSE TRUE

\* C3: for every nested tree without array-index gaps,
\* nest_parameters(flatten_dict(tree)) equals the tree.
C3_RoundTrip ==
    (nt_pc = "done" /\ NoIndexGaps(nt_tree)) => PyEq(nt_nested, nt_tree)

(***************************************************************************)
(* apply_hson_template_to_object (hson_template.py): field resolution      *)
(***************************************************************************)
\* Type names are whole strings; the code looks into them only with
\* lower(), with membership in fixed sets and with the substring tests
\* "float" in t, "int" in t, "bool" in t and "::" in t, given here for the
\* type names of the model.
TypeLower(t) ==
    CASE t = "N::Mode" -> "n::mode" [] t = "Mode" -> "mode" [] t = "Vec" -> "vec"
      [] t = "VecBase" -> "vecbase" [] t = "Item" -> "item" [] OTHER -> t

IntTypeNames ==
    {"int", "int8", "int16", "int32", "int64", "uint32", "uint8", "uint16", "uint64"}

FloatTypeNames == {"float", "float32"}

recognized ==
    IntTypeNames \cup {"float", "float32", "bool", "string", "vector", "array", "vector3"}

primitives ==
    {"uint32", "uint8", "uint16", "uint64", "int", "float", "bool", "string",
     "vector3", "object_reference"}

\* "::" in ftype
IsEnumRef(t) == t \in {"N::Mode"}

\* ftype.split("::")[-1]
ShortEnumName(t) == IF t = "N::Mode" THEN "Mode" ELSE t

\* 0.0 if "float" in t else (0 if "int" in t else (False if "bool" in t else ""))
ZeroBySubstring(tl) ==
    IF tl \in FloatTypeNames THEN Val("float", 0)
    ELSE IF tl \in IntTypeNames THEN Val("int", 0)
    ELSE IF tl = "bool" THEN Val("bool", FALSE)
    ELSE Val("str", <<>>)

\* default_val of a primitive array (lines 261-264)
ArrayDefault(subtype_lower) ==
    IF subtype_lower \in IntTypeNames THEN Val("int", 0)
    ELSE IF subtype_lower \in FloatTypeNames THEN Val("float", 0)
    ELSE IF subtype_lower = "bool" THEN Val("bool", FALSE)
    ELSE Val("str", <<>>)

ArrayField(n, sub, size) == [name |-> n, type |-> "array", subtype |-> sub, array_size |-> size]

\* field.get("array_size", 1)
ArraySizeOf(field) == IF field.array_size = 0 THEN 1 ELSE field.array_size

\* str(n) for an integer n >= 0
RECURSIVE IntToChars(_)
IntToChars(n) ==
    LET DigitChars == <<"0", "1", "2", "3", "4", "5", "6", "7", "8", "9">>
    IN  IF n < 10 THEN <<DigitChars[n + 1]>>
        ELSE IntToChars(n \div 10) \o <<DigitChars[(n % 10) + 1]>>

\* str(value)
RECURSIVE Str(_)
Str(x) ==
    CASE x.k = "str"   -> x.v
      [] x.k = "int"   -> IntToChars(x.v)
      [] x.k = "float" -> IntToChars(x.v) \o <<".", "0">>
      [] x.k = "bool"  -> IF x.v THEN <<"T", "r", "u", "e">> ELSE <<"F", "a", "l", "s", "e">>
      [] x.k = "none"  -> <<"N", "o", "n", "e">>
      [] x.k = "list"  -> <<"[">> \o Join([i \in 1..Len(x.v) |->
                                              IF x.v[i].k = "str"
                                              THEN <<"'">> \o x.v[i].v \o <<"'">>
                                              ELSE Str(x.v[i])], ",") \o <<"]">>
      [] OTHER -> <<"{", "}">>

\* bool(value): Python truthiness
Truthy(x) ==
    CASE x.k = "str"   -> x.v # <<>>
      [] x.k = "int"   -> x.v # 0
      [] x.k = "float" -> x.v # 0
      [] x.k = "bool"  -> x.v
      [] x.k = "none"  -> FALSE
      [] OTHER         -> x.v # <<>>

\* imported_params and key in imported_params
Imported(imp, key) == Truthy(imp) /\ DictHas(imp, key)

\* new_val = [new_val] when the type is "string" and the value is no list
WrapString(tl, val) == IF tl = "string" /\ val.k # "list" THEN Val("list", <<val>>) ELSE val

\* new_val = "" if new_val in ["", None] else str(new_val)
EnumString(val) == IF val = Val("str", <<>>) \/ val = NoneV THEN Val("str", <<>>) ELSE Val("str", Str(val))

\* while len(new_val) < size: new_val.append(default_val)
RECURSIVE PadTo(_, _, _)
PadTo(lst, size, default_val) ==
    IF Len(lst) >= size THEN lst ELSE PadTo(Append(lst, default_val), size, default_val)

\* Faulty variant: a short array is kept and padded up to one element short of size.
PrimitiveArrayShort(arr, size, subtype_lower) ==
    IF Truthy(arr) /\ Len(arr.v) >= size THEN arr
    ELSE Val("list", PadTo(<<>>, size - 1, ArrayDefault(subtype_lower)))

\* lines 260-266: an array at least `size` long is kept as it is, any
\* shorter one is replaced by `size` defaults.
PrimitiveArray(arr, size, subtype_lower) ==
    IF Truthy(arr) /\ Len(arr.v) >= size THEN arr
    ELSE Val("list", PadTo(<<>>, size, ArrayDefault(subtype_lower)))

\* template_data.get("enums", {}).get(ftype), else the same by short name;
\* <<>> stands for "no such enum".
EnumDefOf(es, ftype) ==
    IF ftype \in DOMAIN es.tab THEN es.tab[ftype]
    ELSE IF ShortEnumName(ftype) \in DOMAIN es.tab THEN es.tab[ShortEnumName(ftype)]
    ELSE <<>>

\* new_val in ev: the keys of ev are strings
IsEnumKey(ev, val) == val.k = "str" /\ DictHas(ev, val.v)

\* for k, v in ev.items(): if str(v.get("value", "")) == str(new_val): ...
RECURSIVE RawValueKey(_, _)
RawValueKey(pairs, val) ==
    IF pairs = <<>> THEN val
    ELSE IF Str(pairs[1][2].value) = Str(val) THEN Val("str", pairs[1][1])
    ELSE RawValueKey(Tail(pairs), val)

\* list(ev.keys())[0] if ev else ""
EnumFallback(ev) == IF ev.v # <<>> THEN Val("str", ev.v[1][1]) ELSE Val("str", <<>>)

\* lines 298-311
ResolveEnum(es, ftype, val) ==
    LET enum_def == EnumDefOf(es, ftype)
    IN  IF enum_def = <<>> THEN val
        ELSE LET ev == enum_def.values
                 v1 == IF ~IsEnumKey(ev, val) /\ ~DictHas(ev, Str(val))
                       THEN RawValueKey(ev.v, val) ELSE val
             IN  IF ~IsEnumKey(ev, v1) THEN EnumFallback(ev) ELSE v1

\* Faulty variant: the object template's literal default wins over the imported value.
PickValueDefaultFirst(imp, key, template_obj, ftype_lower) ==
    IF DictHas(template_obj.defaults, key) THEN DictGet(template_obj.defaults, key)
    ELSE IF Imported(imp, key) THEN DictGet(imp, key)
    ELSE ZeroBySubstring(ftype_lower)

\* lines 294-297: the imported value, else the template literal, else zero
PickValue(imp, key, template_obj, ftype_lower) ==
    IF Imported(imp, key) THEN DictGet(imp, key)
    ELSE IF DictHas(template_obj.defaults, key) THEN DictGet(template_obj.defaults, key)
    ELSE ZeroBySubstring(ftype_lower)

\* The while loop of lines 319-326: the fields of every ancestor of the
\* sub-struct are appended to the sub-struct's own field list, in the schema
\* itself.  Defined for an acyclic chain.
RECURSIVE MergedFields(_, _, _)
MergedFields(ss, fields, parent) ==
    IF parent = "" \/ parent \notin DOMAIN ss THEN fields
    ELSE MergedFields(ss, fields \o ss[parent].fields, ss[parent].parent)

\* lines 272-289 for one idx and lines 327-343: the keys of the sub-fields
\* of one struct value.  `given` is the dict the literal values come from
\* (NoneV when there is none).
RECURSIVE SubFields(_, _, _, _, _)
SubFields(acc, sub_fields, prefix, given, imp) ==
    IF sub_fields = <<>> THEN acc
    ELSE LET sub_field == Head(sub_fields)
             stl       == TypeLower(sub_field.type)
             new_key   == prefix \o <<":">> \o sub_field.name
             v0 == IF given.k = "dict"
                   THEN (IF DictHas(given, sub_field.name)
                         THEN DictGet(given, sub_field.name) ELSE Val("str", <<>>))
                   ELSE ZeroBySubstring(stl)
             v1 == IF Imported(imp, new_key) THEN DictGet(imp, new_key) ELSE v0
             v2 == IF IsEnumRef(sub_field.type) THEN EnumString(v1) ELSE v1
             v3 == WrapString(stl, v2)
         IN  SubFields([acc EXCEPT !.params = DictSet(@, new_key, v3),
                                   !.types  = DictSet(@, new_key, sub_field.type)],
                       Tail(sub_fields), prefix, given, imp)

\* for idx in range(size): ... (lines 272-289)
RECURSIVE StructArray(_, _, _, _, _, _, _)
StructArray(acc, sub_fields, fname, arr, imp, idx, size) ==
    IF idx >= size THEN acc
    ELSE StructArray(
             SubFields(acc, sub_fields, fname \o IntToChars(idx),
                       IF arr.k = "list" /\ Len(arr.v) > idx /\ arr.v[idx + 1].k = "dict"
                       THEN arr.v[idx + 1] ELSE NoneV,
                       imp),
             sub_fields, fname, arr, imp, idx + 1, size)

\* One round of the loop over all_fields (lines 245-343).
\* acc = [params, types, ss, ok]; ok = FALSE when the round raised.
ResolveField(acc, field, template_obj, es, imp) ==
    LET fname == field.name
        ftype == IF TypeLower(field.type) = "object_reference" THEN "string" ELSE field.type
        ftype_lower == TypeLower(ftype)
    IN  IF ftype_lower = "array" /\ field.subtype # ""
        THEN LET subtype_lower == TypeLower(field.subtype)
                 arr  == IF Imported(imp, fname) THEN DictGet(imp, fname)
                         ELSE IF DictHas(template_obj.defaults, fname)
                         THEN DictGet(template_obj.defaults, fname)
                         ELSE Val("list", <<>>)
                 size == ArraySizeOf(field)
             IN  IF subtype_lower \in primitives
                 THEN IF Truthy(arr) /\ arr.k \notin {"list", "str", "dict"}
                      THEN [acc EXCEPT !.ok = FALSE]      \* len() of a number
                      ELSE [acc EXCEPT
                              !.params = DictSet(@, fname, PrimitiveArray(arr, size, subtype_lower)),
                              !.types  = DictSet(@, fname, field.subtype)]
                 ELSE IF field.subtype \in DOMAIN acc.ss
                 THEN StructArray(acc, acc.ss[field.subtype].fields, fname, arr, imp, 0, size)
                 ELSE [acc EXCEPT !.params = DictSet(@, fname, arr),
                                  !.types  = DictSet(@, fname, "array")]
        ELSE IF ftype_lower \in recognized \/ IsEnumRef(ftype)
        THEN LET new_val == PickValue(imp, fname, template_obj, ftype_lower)
                 v1 == IF IsEnumRef(ftype) THEN ResolveEnum(es, ftype, new_val) ELSE new_val
             IN  [acc EXCEPT !.params = DictSet(@, fname, WrapString(ftype_lower, v1)),
                             !.types  = DictSet(@, fname, ftype)]
        ELSE IF ftype \in DOMAIN acc.ss
        THEN LET merged == MergedFields(acc.ss, acc.ss[ftype].fields, acc.ss[ftype].parent)
                 ss1    == [acc.ss EXCEPT ![ftype].fields = merged]
             IN  SubFields([acc EXCEPT !.ss = ss1], merged, fname,
                           IF DictHas(template_obj.defaults, fname)
                              /\ DictGet(template_obj.defaults, fname).k = "dict"
                           THEN DictGet(template_obj.defaults, fname) ELSE NoneV,
                           imp)
        ELSE acc

RECURSIVE ResolveAll(_, _, _, _, _)
ResolveAll(acc, fields, template_obj, es, imp) ==
    IF fields = <<>> \/ ~acc.ok THEN acc
    ELSE ResolveAll(ResolveField(acc, Head(fields), template_obj, es, imp),
                    Tail(fields), template_obj, es, imp)

\* The two keys every object carries besides its struct's fields.
RangeKey ==
    [rangeIn  |-> <<"t", "a", "g", "s", ":", "R", "a", "n", "g", "e", "S", "p", "a", "w", "n",
                    "i", "n", "g", ":", "r", "a", "n", "g", "e", "I", "n">>,
     rangeOut |-> <<"t", "a", "g", "s", ":", "R", "a", "n", "g", "e", "S", "p", "a", "w", "n",
                    "i", "n", "g", ":", "r", "a", "n", "g", "e", "O", "u", "t">>]

RangeInDefault == 500

RangeOutDefault == 20

\* Faulty variant: the imported bag is not consulted for the synthetic fields.
RangeValueFixed(imp, key, default_val) == Val("float", default_val)

\* lines 236 and 238
RangeValue(imp, key, default_val) ==
    IF Imported(imp, key) THEN DictGet(imp, key) ELSE Val("float", default_val)

\* lines 235-239: params and types before the loop over the fields
RangeParams(imp) ==
    [params |-> DictSet(DictSet(EmptyDict, RangeKey.rangeIn, RangeValue(imp, RangeKey.rangeIn, RangeInDefault)),
                        RangeKey.rangeOut, RangeValue(imp, RangeKey.rangeOut, RangeOutDefault)),
     types  |-> DictSet(DictSet(EmptyDict, RangeKey.rangeIn, "float"), RangeKey.rangeOut, "float")]

\* The length of the longest prefix of name made of [0-9A-Z].
RECURSIVE PrefixRunLen(_)
PrefixRunLen(name) ==
    IF name = <<>> \/ Head(name) \notin Digits \cup UpperLetters THEN 0
    ELSE 1 + PrefixRunLen(Tail(name))

\* re.match(r"^[0-9A-Z]+_(.*)$", name): group 1, or the name itself
strip_template_prefix(name) ==
    LET n == PrefixRunLen(name)
    IN  IF n >= 1 /\ n < Len(name) /\ name[n + 1] = "_"
        THEN SubSeq(name, n + 2, Len(name)) ELSE name

\* for key, val in objects_dict.items(): if strip_template_prefix(key) == object_type
RECURSIVE FindByStrippedName(_, _)
FindByStrippedName(pairs, object_type) ==
    IF pairs = <<>> THEN NoneV
    ELSE IF strip_template_prefix(pairs[1][1]) = object_type THEN pairs[1][2]
    ELSE FindByStrippedName(Tail(pairs), object_type)

\* lines 218-226: the template entry of the object's type, NoneV if none
TemplateObjOf(objs, raw_type) ==
    LET object_type == Split(raw_type, ".")[1]
    IN  IF DictHas(objs, object_type) THEN DictGet(objs, object_type)
        ELSE FindByStrippedName(objs.v, object_type)

(***************************************************************************)
(* update_hson_parameters: from the flat params to the object's records    *)
(***************************************************************************)
Word ==
    [float  |-> <<"f", "l", "o", "a", "t">>,
     int    |-> <<"i", "n", "t">>,
     bool   |-> <<"b", "o", "o", "l">>,
     enum   |-> <<"e", "n", "u", "m">>,
     vector |-> <<"v", "e", "c", "t", "o", "r">>,
     list   |-> <<"l", "i", "s", "t">>,
     string |-> <<"s", "t", "r", "i", "n", "g">>]

\* A record just added to obj.hson_parameters (__init__.py, the defaults of
\* the property group).  float_value n stands for n.0.
HSONParametersPropertyGroup ==
    [name |-> <<>>, float_value |-> 0, int_value |-> 0, bool_value |-> FALSE,
     vector_value |-> <<0, 0, 0>>, string_value |-> <<>>, list_value |-> <<>>,
     enum_items |-> <<>>]

\* An option just added to a record's enum_items.
HSONParameterListItem == [selected |-> FALSE, value |-> <<>>, name |-> <<>>, description |-> <<>>]

\* isinstance(n, (int, float)); a bool is an int
IsNumber(x) == x.k \in {"int", "float", "bool"}

AllDigits(s) == s # <<>> /\ \A i \in 1..Len(s) : s[i] \in Digits

NumberOf(x) == IF x.k = "bool" THEN (IF x.v THEN 1 ELSE 0) ELSE x.v

\* int(value): [ok |-> no exception, v |-> the number]
ToInt(x) ==
    IF IsNumber(x) THEN [ok |-> TRUE, v |-> NumberOf(x)]
    ELSE IF x.k = "str" /\ AllDigits(x.v) THEN [ok |-> TRUE, v |-> IntOf(x.v)]
    ELSE [ok |-> FALSE, v |-> 0]

\* float(value): also reads "<digits>.0"
ToFloat(x) ==
    IF x.k = "str" /\ Len(x.v) >= 3 /\ SubSeq(x.v, Len(x.v) - 1, Len(x.v)) = <<".", "0">>
       /\ AllDigits(SubSeq(x.v, 1, Len(x.v) - 2))
    THEN [ok |-> TRUE, v |-> IntOf(SubSeq(x.v, 1, Len(x.v) - 2))]
    ELSE ToInt(x)

\* lines 81-102: the type the record's name ends in
resolved_type(field_type, value) ==
    LET ft_lower == TypeLower(field_type)
    IN  IF IsEnumRef(field_type) THEN Word.enum
        ELSE IF value.k = "list" /\ Len(value.v) = 3
                /\ \A i \in 1..Len(value.v) : IsNumber(value.v[i]) THEN Word.vector
        ELSE IF value.k = "list" THEN Word.list
        ELSE IF ft_lower \in IntTypeNames THEN Word.int
        ELSE IF ft_lower \in FloatTypeNames THEN Word.float
        ELSE IF ft_lower = "bool" THEN Word.bool
        ELSE IF ft_lower = "string" THEN Word.list
        ELSE IF ft_lower = "vector3" THEN Word.vector
        ELSE Word.list

\* lines 106-141: the value is written into the slot of the resolved type;
\* a conversion that raises leaves the slot at its default.
FillRecord(item, rt, value) ==
    IF rt = Word.list
    THEN [item EXCEPT !.list_value =
             IF value.k = "list" /\ value.v # <<>>
             THEN [i \in 1..Len(value.v) |-> Str(value.v[i])]
             ELSE << <<>> >>]
    ELSE IF rt = Word.float
    THEN (IF ToFloat(value).ok THEN [item EXCEPT !.float_value = ToFloat(value).v] ELSE item)
    ELSE IF rt = Word.int
    THEN (IF ToInt(value).ok THEN [item EXCEPT !.int_value = ToInt(value).v] ELSE item)
    ELSE IF rt = Word.bool
    THEN [item EXCEPT !.bool_value = Truthy(value)]
    ELSE IF rt = Word.enum
    THEN [item EXCEPT !.string_value =
             IF value = Val("str", <<>>) \/ value = NoneV THEN <<"0">> ELSE Str(value)]
    ELSE [item EXCEPT !.vector_value =
             IF value.k = "list" /\ Len(value.v) = 3
             THEN [i \in 1..3 |-> NumberOf(value.v[i])] ELSE <<0, 0, 0>>]

\* parent_key.replace("[", "").replace("]", "")
StripBrackets(s) == SelectSeq(s, LAMBDA c : c \notin {"[", "]"})

\* lines 75-105: the record made for one leaf of the nested tree
LeafRecord(key, value, parent_key, types) ==
    LET lookup_key == IF parent_key # <<>> THEN StripBrackets(parent_key) \o <<":">> \o key
                      ELSE key
        field_type == IF DictHas(types, lookup_key) THEN DictGet(types, lookup_key) ELSE ""
        rt         == resolved_type(field_type, value)
        val        == IF rt = Word.list /\ TypeLower(field_type) = "string" /\ value.k # "list"
                      THEN Val("list", <<value>>) ELSE value
    IN  FillRecord([HSONParametersPropertyGroup EXCEPT !.name = lookup_key \o <<":">> \o rt],
                   rt, val)

RECURSIVE process_nested_params(_, _, _, _)
RECURSIVE ProcessElements(_, _, _, _, _)

\* lines 67-74; out is obj.hson_parameters so far
process_nested_params(pairs, parent_key, types, out) ==
    IF pairs = <<>> THEN out
    ELSE LET key      == pairs[1][1]
             value    == pairs[1][2]
             full_key == IF parent_key # <<>> THEN parent_key \o <<":">> \o key ELSE key
             out1 ==
                 IF value.k = "dict"
                 THEN process_nested_params(value.v, full_key, types, out)
                 ELSE IF value.k = "list" /\ \A i \in 1..Len(value.v) : value.v[i].k = "dict"
                 THEN ProcessElements(value.v, 0, full_key, types, out)
                 ELSE Append(out, LeafRecord(key, value, parent_key, types))
         IN  process_nested_params(Tail(pairs), parent_key, types, out1)

\* for idx, sub_value in enumerate(value): process_nested_params(sub_value, f"{full_key}[{idx}]")
ProcessElements(elems, idx, full_key, types, out) ==
    IF idx >= Len(elems) THEN out
    ELSE ProcessElements(elems, idx + 1, full_key, types,
             process_nested_params(elems[idx + 1].v,
                                   full_key \o <<"[">> \o IntToChars(idx) \o <<"]">>,
                                   types, out))

\* The records of obj.hson_parameters after the call: the old ones are
\* cleared, one record is added per leaf of nest_parameters(params).
update_hson_parameters(params, types) ==
    process_nested_params(nest_parameters(params).v, <<>>, types, <<>>)

(***************************************************************************)
(* register_enum_properties and the enum options of the records            *)
(***************************************************************************)
StartsWith(s, prefix) == Len(s) >= Len(prefix) /\ SubSeq(s, 1, Len(prefix)) = prefix

\* sub in s
Contains(s, sub) ==
    \E i \in 0..(Len(s) - Len(sub)) : SubSeq(s, i + 1, i + Len(sub)) = sub

\* s.strip()
RECURSIVE Strip(_)
Strip(s) ==
    IF s # <<>> /\ Head(s) = " " THEN Strip(Tail(s))
    ELSE IF s # <<>> /\ s[Len(s)] = " " THEN Strip(SubSeq(s, 1, Len(s) - 1))
    ELSE s

\* The first record whose name starts with "<lookup_key>:enum"; 0 if none.
FirstEnumParam(hp, lookup_key) ==
    LET hits == {i \in 1..Len(hp) : StartsWith(hp[i].name, lookup_key \o <<":">> \o Word.enum)}
    IN  IF hits = {} THEN 0 ELSE CHOOSE i \in hits : \A j \in hits : i <= j

\* f"hson_enum_{lookup_key.replace(':','_')}"
PropName(lookup_key) ==
    <<"h", "s", "o", "n", "_", "e", "n", "u", "m", "_">>
        \o [i \in 1..Len(lookup_key) |-> IF lookup_key[i] = ":" THEN "_" ELSE lookup_key[i]]

\* make_enum_update_callback(lookup_key).update: the first record named
\* "<lookup_key>:enum..." takes the new value of the property.
EnumPropUpdate(hp, lookup_key, new_val) ==
    LET i == FirstEnumParam(hp, lookup_key)
    IN  IF i = 0 THEN hp ELSE [hp EXCEPT ![i].string_value = new_val]

\* register_enum_properties; st = [hp, props, ok], ok = FALSE once a step
\* raised (template_data["enums"] missing, an enum without options, a
\* default key that is no option).
RECURSIVE RegisterFrom(_, _, _)
RegisterFrom(tpairs, es, st) ==
    IF tpairs = <<>> \/ ~st.ok THEN st
    ELSE LET lookup_key == tpairs[1][1]
             ftype      == tpairs[1][2]
             rest       == Tail(tpairs)
         IN  IF ~IsEnumRef(ftype) THEN RegisterFrom(rest, es, st)
             ELSE IF ~es.has THEN [st EXCEPT !.ok = FALSE]
             ELSE IF EnumDefOf(es, ftype) = <<>> THEN RegisterFrom(rest, es, st)
             ELSE LET enum_def == EnumDefOf(es, ftype)
                      keys     == DictKeys(enum_def.values)
                      i        == FirstEnumParam(st.hp, lookup_key)
                  IN  IF keys = <<>> THEN [st EXCEPT !.ok = FALSE]
                      ELSE LET default_key == IF enum_def.default_key = Absent
                                              THEN keys[1] ELSE enum_def.default_key.v
                               stored == IF i # 0 /\ DictHas(enum_def.values, st.hp[i].string_value)
                                         THEN st.hp[i].string_value ELSE default_key
                           IN  IF ~DictHas(enum_def.values, stored)
                               THEN [st EXCEPT !.ok = FALSE]
                               ELSE RegisterFrom(rest, es,
                                        [st EXCEPT
                                           !.props = DictSet(@, PropName(lookup_key), stored),
                                           !.hp = EnumPropUpdate(@, lookup_key, stored)])

register_enum_properties(hp, props, es, types) ==
    RegisterFrom(types.v, es, [hp |-> hp, props |-> props, ok |-> TRUE])

\* enum_item.selected = True, and its update callback update_enum_selection
\* (__init__.py): when the object is context.object and the record's name
\* contains "enum", every other option is deselected and the record's
\* string_value becomes the option's value.
SelectOption(param, idx, active) ==
    IF active /\ Contains(param.name, Word.enum)
    THEN [param EXCEPT
            !.enum_items = [j \in 1..Len(@) |-> [@[j] EXCEPT !.selected = (j = idx)]],
            !.string_value = param.enum_items[idx].value]
    ELSE [param EXCEPT !.enum_items[idx].selected = TRUE]

\* lines 364-373: the options of one record, one per enum key
RECURSIVE AddOptions(_, _, _, _, _)
AddOptions(param, pairs, imported_val, active, found) ==
    IF pairs = <<>>
    THEN IF ~found /\ Len(param.enum_items) > 0 THEN SelectOption(param, 1, active) ELSE param
    ELSE LET enum_key  == pairs[1][1]
             enum_info == pairs[1][2]
             enum_val  == Lower(Strip(Str(enum_info.value)))
             p1  == [param EXCEPT !.enum_items =
                        Append(@, [HSONParameterListItem EXCEPT
                                     !.value = enum_key, !.name = enum_info.name,
                                     !.description = enum_info.description])]
             hit == imported_val = Lower(enum_key) \/ imported_val = enum_val
         IN  AddOptions(IF hit THEN SelectOption(p1, Len(p1.enum_items), active) ELSE p1,
                        Tail(pairs), imported_val, active, found \/ hit)

\* lines 360-375 for one enum field: every record named "<field_name>:enum..."
BuildOptions(hp, field_name, ev, active) ==
    [i \in 1..Len(hp) |->
        IF StartsWith(hp[i].name, field_name \o <<":">> \o Word.enum)
        THEN AddOptions([hp[i] EXCEPT !.enum_items = <<>>], ev.v,
                        Lower(Strip(hp[i].string_value)), active, FALSE)
        ELSE hp[i]]

\* lines 348-375
RECURSIVE EnumItemsFrom(_, _, _, _)
EnumItemsFrom(tpairs, es, hp, active) ==
    IF tpairs = <<>> THEN hp
    ELSE LET field_name == tpairs[1][1]
             ftype      == tpairs[1][2]
         IN  EnumItemsFrom(Tail(tpairs), es,
                 IF IsEnumRef(ftype) /\ EnumDefOf(es, ftype) # <<>>
                 THEN BuildOptions(hp, field_name, EnumDefOf(es, ftype).values, active)
                 ELSE hp,
                 active)

(***************************************************************************)
(* apply_hson_template_to_object: the call                                 *)
(***************************************************************************)
MaxApplies == 2

\* Faulty variant: the records of the object are cleared before the lookups.
ApFailCleared(message, arity) ==
    /\ ap_result' = [success |-> FALSE, message |-> message, arity |-> arity]
    /\ ap_params' = EmptyDict
    /\ ap_types' = EmptyDict
    /\ hson_parameters' = <<>>
    /\ UNCHANGED <<structs, hson_uuid, enum_props>>

\* The value a failed lookup returns (lines 227-234); the last two returns
\* are pairs, not triples.  Nothing of the object was touched.
ApFail(message, arity) ==
    /\ ap_result' = [success |-> FALSE, message |-> message, arity |-> arity]
    /\ ap_params' = EmptyDict
    /\ ap_types' = EmptyDict
    /\ UNCHANGED <<structs, hson_parameters, hson_uuid, enum_props>>

\* The except clause of line 377.
ApRaised(acc, hp, props) ==
    /\ ap_result' = [success |-> FALSE, message |-> "hson_template error!", arity |-> 3]
    /\ structs' = acc.ss
    /\ ap_params' = acc.params
    /\ ap_types' = acc.types
    /\ hson_parameters' = hp
    /\ enum_props' = props
    /\ UNCHANGED hson_uuid

Apply ==
    /\ ap_calls < MaxApplies
    /\ ap_calls' = ap_calls + 1
    /\ LET template_obj == TemplateObjOf(objects, obj_type)
       IN  IF template_obj = NoneV
           THEN ApFail("Template for object type not found.", 3)
           ELSE IF template_obj.struct = ""
           THEN ApFail("No struct defined for object type.", 2)
           ELSE IF template_obj.struct \notin DOMAIN structs
           THEN ApFail("Struct not found in template.", 2)
           ELSE LET r0  == RangeParams(imported_params)
                    acc == ResolveAll([params |-> r0.params, types |-> r0.types,
                                       ss |-> structs, ok |-> TRUE],
                                      GetStructFields(structs, template_obj.struct, {}),
                                      template_obj, enums, imported_params)
                    reg == register_enum_properties(
                               update_hson_parameters(acc.params, acc.types),
                               enum_props, enums, acc.types)
                IN  IF ~acc.ok THEN ApRaised(acc, hson_parameters, enum_props)
                    ELSE IF ~reg.ok THEN ApRaised(acc, reg.hp, reg.props)
                    ELSE /\ structs' = acc.ss
                         /\ ap_params' = acc.params
                         /\ ap_types' = acc.types
                         /\ enum_props' = reg.props
                         /\ hson_uuid' = IF hson_uuid = "" THEN "{NEW}" ELSE hson_uuid
                         /\ hson_parameters' =
                              EnumItemsFrom(acc.types.v, enums, reg.hp, context_object = "obj")
                         /\ ap_result' = [success |-> TRUE, message |-> "Applied template",
                                          arity |-> 3]
    /\ UNCHANGED <<enums, objects, obj_type, imported_params, context_object, rsVars, msVars, ntVars, trVars, imVars, mgVars>>

(***************************************************************************)
(* The templates, objects and imported bags of the runs                    *)
(***************************************************************************)
ArraySize == 2

\* The field names and object type names of the template.
Nm ==
    [speed |-> <<"s", "p", "e", "e", "d">>,
     count |-> <<"c", "o", "u", "n", "t">>,
     on    |-> <<"o", "n">>,
     label |-> <<"l", "a", "b", "e", "l">>,
     mode  |-> <<"m", "o", "d", "e">>,
     pts   |-> <<"p", "t", "s">>,
     pos   |-> <<"p", "o", "s">>,
     items |-> <<"i", "t", "e", "m", "s">>,
     x     |-> <<"x">>,
     w     |-> <<"w">>,
     kind  |-> <<"k", "i", "n", "d">>,
     c2    |-> <<"c", "2">>,
     bag   |-> <<"b", "a", "g">>,
     Num   |-> <<"N", "u", "m">>,
     Prim  |-> <<"P", "r", "i", "m">>,
     Sel   |-> <<"S", "e", "l">>,
     Arr   |-> <<"A", "r", "r">>,
     Comp  |-> <<"C", "o", "m", "p">>,
     Dup   |-> <<"D", "u", "p">>,
     NoStruct  |-> <<"N", "o", "S">>,
     BadStruct |-> <<"B", "a", "d">>,
     Ghost     |-> <<"G", "h", "o", "s", "t">>]

\* The structs of the template; the subtype of the array field varies.
ApplyStructs(pts_subtype) ==
    [Base    |-> [parent |-> "", fields |-> <<FieldDef(Nm.speed, "float")>>],
     Prim    |-> [parent |-> "Base",
                  fields |-> <<FieldDef(Nm.count, "uint32"), FieldDef(Nm.on, "bool"),
                               FieldDef(Nm.label, "string")>>],
     Sel     |-> [parent |-> "", fields |-> <<FieldDef(Nm.mode, "N::Mode")>>],
     Arr     |-> [parent |-> "", fields |-> <<ArrayField(Nm.pts, pts_subtype, ArraySize)>>],
     VecRoot |-> [parent |-> "", fields |-> <<FieldDef(Nm.on, "bool")>>],
     VecBase |-> [parent |-> "VecRoot", fields |-> <<FieldDef(Nm.w, "float")>>],
     Vec     |-> [parent |-> "VecBase", fields |-> <<FieldDef(Nm.x, "float")>>],
     Item    |-> [parent |-> "VecBase",
                  fields |-> <<FieldDef(Nm.kind, "N::Mode"), FieldDef(Nm.x, "float")>>],
     Comp    |-> [parent |-> "", fields |-> <<FieldDef(Nm.pos, "Vec"),
                                              ArrayField(Nm.items, "Item", ArraySize)>>],
     Dup     |-> [parent |-> "Base", fields |-> <<FieldDef(Nm.speed, "uint32")>>],
     Num     |-> [parent |-> "", fields |-> <<FieldDef(Nm.c2, "float"),
                                              ArrayField(Nm.bag, "Nope", ArraySize)>>]]

EnumDef(values, default_key) == [values |-> values, default_key |-> default_key]

\* The arrays handed in for the array field: every length up to one more
\* than the declared size, and a number instead of an array.
RECURSIVE ArraysUpTo(_, _)
ArraysUpTo(elem, n) ==
    IF n = 0 THEN {Val("list", <<>>)}
    ELSE ArraysUpTo(elem, n - 1) \cup {Val("list", [i \in 1..n |-> elem])}

\* The calls: template, object type and imported bag, by the kind of field.
ApplyCases ==
    LET EnumInfo(n, raw) == [name |-> n, description |-> <<>>, value |-> raw]
        ModeValues ==
            Val("dict", << <<<<"A">>, EnumInfo(<<"A">>, Val("int", 0))>>,
                     <<<<"B">>, EnumInfo(<<"B">>, Val("int", 1))>>,
                     <<<<"C">>, EnumInfo(<<"C">>, Val("int", 2))>> >>)
        \* An enum whose keys are the numerals of its raw values.
        ModeValuesNumeral ==
            Val("dict", << <<<<"0">>, EnumInfo(<<"0">>, Val("int", 0))>>,
                     <<<<"1">>, EnumInfo(<<"1">>, Val("int", 1))>> >>)
        \* An enum one of whose keys reads like the raw value of another option.
        ModeValuesCrossed ==
            Val("dict", << <<<<"1">>, EnumInfo(<<"1">>, Val("int", 0))>>,
                           <<<<"A">>, EnumInfo(<<"A">>, Val("int", 1))>> >>)
        \* The enum tables: by full name, by short name, with a numeral key, with
        \* a key that is another option's value, with an explicit default key,
        \* without options, none at all, no "enums" key.
        EnumTables ==
            { EnumsOf([x \in {"N::Mode"} |-> EnumDef(ModeValues, Absent)]),
              EnumsOf([x \in {"Mode"} |-> EnumDef(ModeValues, Absent)]),
              EnumsOf([x \in {"N::Mode"} |-> EnumDef(ModeValuesNumeral, Absent)]),
              EnumsOf([x \in {"N::Mode"} |-> EnumDef(ModeValuesCrossed, Absent)]),
              EnumsOf([x \in {"N::Mode"} |-> EnumDef(ModeValues, Val("str", <<"B">>))]),
              EnumsOf([x \in {"N::Mode"} |-> EnumDef(EmptyDict, Absent)]),
              NoEnums,
              MissingEnums }
        \* The dict of the pairs whose value is given.
        DictOf(pairs) == Val("dict", SelectSeq(pairs, LAMBDA p : p[2] # Absent))
        TemplateObj(struct_name, defaults) == [struct |-> struct_name, defaults |-> defaults]
        \* template_data["objects"], with the literal defaults of one entry given.
        ObjectsWith(typ, defaults) ==
            LET d(t) == IF t = typ THEN defaults ELSE EmptyDict
            IN  Val("dict", << <<Nm.Prim, TemplateObj("Prim", d(Nm.Prim))>>,
                         <<<<"0", "3", "A", "_">> \o Nm.Sel, TemplateObj("Sel", d(Nm.Sel))>>,
                         <<Nm.Arr, TemplateObj("Arr", d(Nm.Arr))>>,
                         <<Nm.Comp, TemplateObj("Comp", d(Nm.Comp))>>,
                         <<Nm.Dup, TemplateObj("Dup", d(Nm.Dup))>>,
                         <<Nm.Num, TemplateObj("Num", d(Nm.Num))>>,
                         <<Nm.NoStruct, TemplateObj("", EmptyDict)>>,
                         <<Nm.BadStruct, TemplateObj("Nope", EmptyDict)>> >>)
        Case(typ, raw_type, defaults, ss, es, imp) ==
            [obj_type |-> raw_type, objects |-> ObjectsWith(typ, defaults),
             structs |-> ss, enums |-> es, imported |-> imp]
        RangeChoices ==
            { <<ri, ro>> : ri \in {Absent, Val("float", 7)}, ro \in {Absent, Val("float", 3)} }
        PrimCases ==
            { Case(Nm.Prim, Nm.Prim,
                   DictOf(<< <<Nm.speed, ds>>, <<Nm.count, dc>>, <<Nm.label, dl>> >>),
                   ApplyStructs("float"), NoEnums,
                   DictOf(<< <<Nm.speed, s>>, <<Nm.count, c>>, <<Nm.on, o>>, <<Nm.label, l>>,
                             <<RangeKey.rangeIn, rg[1]>>, <<RangeKey.rangeOut, rg[2]>> >>)) :
                ds \in {Absent, Val("float", 2)}, dc \in {Absent, Val("int", 3)},
                dl \in {Absent, Val("str", <<"d">>)},
                s \in {Absent, Val("float", 1)}, c \in {Absent, Val("int", 5)}, o \in {Absent, Val("bool", TRUE)},
                l \in {Absent, Val("str", <<"h">>), Val("list", <<Val("str", <<"a">>), Val("str", <<"b">>)>>)},
                rg \in RangeChoices }
        SelCases ==
            { Case(Nm.Sel, Nm.Sel \o <<".", "0", "0", "1">>,
                   DictOf(<< <<Nm.mode, dm>> >>),
                   ApplyStructs("float"), es,
                   DictOf(<< <<Nm.mode, m>>, <<RangeKey.rangeIn, rg[1]>>, <<RangeKey.rangeOut, rg[2]>> >>)) :
                dm \in {Absent, Val("str", <<"B">>), Val("int", 2)},
                es \in EnumTables,
                m \in {Absent, Val("str", <<"A">>), Val("str", <<"C">>), Val("str", <<"z">>), Val("str", <<>>), Val("str", <<"1">>),
                       Val("int", 0), Val("int", 1), Val("int", 7), Val("float", 1)},
                rg \in {<<Absent, Absent>>, <<Val("float", 7), Val("float", 3)>>} }
        ArrCases ==
            { Case(Nm.Arr, Nm.Arr,
                   DictOf(<< <<Nm.pts, dp>> >>),
                   ApplyStructs(sub), NoEnums,
                   DictOf(<< <<Nm.pts, a>>, <<RangeKey.rangeIn, rg[1]>>, <<RangeKey.rangeOut, rg[2]>> >>)) :
                dp \in {Absent, Val("list", <<Val("int", 9)>>)},
                sub \in {"float", "uint32", "bool", "string", "vector3"},
                a \in {Absent, Val("int", 5)} \cup ArraysUpTo(Val("int", 4), ArraySize + 1),
                rg \in {<<Absent, Absent>>, <<Val("float", 7), Absent>>} }
        CompCases ==
            { Case(Nm.Comp, Nm.Comp,
                   DictOf(<< <<Nm.pos, dp>> >>),
                   ApplyStructs("float"), es,
                   DictOf(<< <<Nm.pos \o <<":">> \o Nm.x, px>>, <<Nm.items, it>>,
                             <<Nm.items \o <<"0", ":">> \o Nm.kind, ik>> >>)) :
                dp \in {Absent, Val("dict", << <<Nm.x, Val("float", 4)>> >>)},
                es \in {EnumsOf([x \in {"N::Mode"} |-> EnumDef(ModeValues, Absent)])},
                px \in {Absent, Val("float", 1)},
                it \in {Absent, Val("list", <<Val("dict", << <<Nm.x, Val("float", 6)>> >>)>>),
                        Val("list", <<Val("dict", << <<Nm.kind, Val("str", <<"B">>)>> >>), EmptyDict>>)},
                ik \in {Absent, Val("str", <<"C">>), Val("int", 1)} }
        OtherCases ==
            { Case(Nm.Dup, typ, EmptyDict, ApplyStructs("float"), NoEnums, imp) :
                typ \in {Nm.Dup, Nm.NoStruct, Nm.BadStruct, Nm.Ghost},
                imp \in {NoneV, EmptyDict, DictOf(<< <<Nm.speed, Val("int", 5)>> >>)} }
        \* A field whose name ends in a digit and an array of an unknown subtype.
        NumCases ==
            { Case(Nm.Num, Nm.Num, EmptyDict, ApplyStructs("float"), NoEnums,
                   DictOf(<< <<Nm.c2, c>>, <<Nm.bag, b>> >>)) :
                c \in {Absent, Val("float", 5)},
                b \in {Absent, Val("list", <<>>), Val("list", <<Val("int", 4)>>)} }
    IN  PrimCases \cup SelCases \cup ArrCases \cup CompCases \cup OtherCases \cup NumCases

\* The object before the call: a new object, or one that carries a record
\* and an id from an earlier import.
ObjectStates ==
    { [hson_parameters |-> <<>>, hson_uuid |-> "", context_object |-> "other"],
      [hson_parameters |-> <<>>, hson_uuid |-> "", context_object |-> "obj"],
      [hson_parameters |-> <<[HSONParametersPropertyGroup EXCEPT
                                !.name = <<"o", "l", "d", ":">> \o Word.float,
                                !.float_value = 8]>>,
       hson_uuid |-> "{OLD}", context_object |-> "obj"] }

InitApply ==
    /\ \E c \in ApplyCases :
          /\ obj_type = c.obj_type
          /\ objects = c.objects
          /\ structs = c.structs
          /\ enums = c.enums
          /\ imported_params = c.imported
    /\ \E o \in ObjectStates :
          /\ hson_parameters = o.hson_parameters
          /\ hson_uuid = o.hson_uuid
          /\ context_object = o.context_object
    /\ Idle({"apply", "object"})

SpecApply == InitApply /\ [][Apply]_vars

(***************************************************************************)
(* Claims about apply_hson_template_to_object                              *)
(***************************************************************************)
\* The flattened field list of the struct of the object's template entry.
AppliedFields ==
    GetStructFields(structs, TemplateObjOf(objects, obj_type).struct, {})

\* The declaration that decides the parameter of its name: the last one.
LastDeclared(fields, i) == \A j \in (i + 1)..Len(fields) : fields[j].name # fields[i].name

IsPrimitiveArray(f) == f.type = "array" /\ TypeLower(f.subtype) \in primitives

\* 0 for integer subtypes, 0.0 for float, false for bool, "" otherwise
SubtypeZero(sub) ==
    CASE sub \in {"int", "int8", "int16", "int32", "int64",
                  "uint8", "uint16", "uint32", "uint64"} -> Val("int", 0)
      [] sub \in {"float", "float32"}                    -> Val("float", 0)
      [] sub = "bool"                                    -> Val("bool", FALSE)
      [] OTHER                                           -> Val("str", <<>>)

\* The imported array of a field is a list shorter than the declared size.
ShortImport(f) ==
    /\ imported_params.k = "dict"
    /\ DictHas(imported_params, f.name)
    /\ DictGet(imported_params, f.name).k = "list"
    /\ Len(DictGet(imported_params, f.name).v) < f.array_size

\* C4: after a successful application, every primitive-subtype array field
\* of declared size N whose imported array is shorter than N has a resolved
\* value of length exactly N, and the elements past the imported length are
\* the zero value of the subtype.
C4_ArrayPadding ==
    ap_result.success =>
        \A i \in 1..Len(AppliedFields) :
            LET f == AppliedFields[i]
            IN  (IsPrimitiveArray(f) /\ ShortImport(f)) =>
                    /\ DictHas(ap_params, f.name)
                    /\ DictGet(ap_params, f.name).k = "list"
                    /\ Len(DictGet(ap_params, f.name).v) = f.array_size
                    /\ \A n \in (Len(DictGet(imported_params, f.name).v) + 1)..f.array_size :
                           DictGet(ap_params, f.name).v[n] = SubtypeZero(TypeLower(f.subtype))

\* A one-element array was imported for a float array declared longer, and
\* the application succeeded.
C4_Witness ==
    /\ ap_result.success
    /\ \E i \in 1..Len(AppliedFields) :
           /\ IsPrimitiveArray(AppliedFields[i])
           /\ AppliedFields[i].subtype = "float"
           /\ ShortImport(AppliedFields[i])
           /\ Len(DictGet(imported_params, AppliedFields[i].name).v) = 1
           /\ Len(DictGet(ap_params, AppliedFields[i].name).v) = AppliedFields[i].array_size

\* The value a field starts from: the imported one, else the literal of the
\* object's template entry, else the zero of the type.
PrecedenceValue(f) ==
    IF imported_params.k = "dict" /\ imported_params.v # <<>> /\ DictHas(imported_params, f.name)
    THEN DictGet(imported_params, f.name)
    ELSE IF DictHas(TemplateObjOf(objects, obj_type).defaults, f.name)
    THEN DictGet(TemplateObjOf(objects, obj_type).defaults, f.name)
    ELSE SubtypeZero(TypeLower(f.type))

\* The enum a top-level field refers to, <<>> if the template has none.
FieldEnum(f) == EnumDefOf(enums, f.type)

IsEnumField(f) == IsEnumRef(f.type) /\ FieldEnum(f) # <<>> /\ FieldEnum(f).values.v # <<>>

\* The keys of the options whose raw value reads like the value v.
RawMatches(ev, v) == {n \in 1..Len(ev.v) : Str(ev.v[n][2].value) = Str(v)}

\* C5: a top-level enum field whose value is a key of the enum keeps it; a
\* value that is no key but equals the raw value of an option resolves to
\* that option's key; any other value resolves to the first declared key.
C5_EnumResolution ==
    ap_result.success =>
        \A i \in 1..Len(AppliedFields) :
            LET f  == AppliedFields[i]
                ev == FieldEnum(f).values
                v  == PrecedenceValue(f)
                r  == DictGet(ap_params, f.name)
            IN  (IsEnumField(f) /\ LastDeclared(AppliedFields, i)) =>
                    IF v.k = "str" /\ DictHas(ev, v.v) THEN r = v
                    ELSE IF RawMatches(ev, v) # {}
                    THEN \E n \in RawMatches(ev, v) : r = Val("str", ev.v[n][1])
                    ELSE r = Val("str", ev.v[1][1])

IsScalarField(f) ==
    /\ ~(f.type = "array" /\ f.subtype # "")
    /\ (TypeLower(f.type) \in recognized \/ IsEnumRef(f.type))

C10_RangeFields ==
    ap_result.success =>
        /\ DictHas(ap_params, RangeKey.rangeIn) /\ DictHas(ap_params, RangeKey.rangeOut)
        /\ DictGet(ap_params, RangeKey.rangeIn) =
               (IF imported_params.k = "dict" /\ DictHas(imported_params, RangeKey.rangeIn)
                THEN DictGet(imported_params, RangeKey.rangeIn) ELSE Val("float", 500))
        /\ DictGet(ap_params, RangeKey.rangeOut) =
               (IF imported_params.k = "dict" /\ DictHas(imported_params, RangeKey.rangeOut)
                THEN DictGet(imported_params, RangeKey.rangeOut) ELSE Val("float", 20))
        /\ DictHas(ap_types, RangeKey.rangeIn) /\ DictGet(ap_types, RangeKey.rangeIn) = "float"
        /\ DictHas(ap_types, RangeKey.rangeOut) /\ DictGet(ap_types, RangeKey.rangeOut) = "float"

\* A successful application took rangeIn from the bag and gave rangeOut,
\* which the bag lacks, its default.
C10_Witness ==
    /\ ap_result.success
    /\ imported_params.k = "dict"
    /\ DictHas(imported_params, RangeKey.rangeIn)
    /\ ~DictHas(imported_params, RangeKey.rangeOut)
    /\ DictGet(ap_params, RangeKey.rangeIn) = DictGet(imported_params, RangeKey.rangeIn)
    /\ DictGet(ap_params, RangeKey.rangeIn) # Val("float", 500)
    /\ DictGet(ap_params, RangeKey.rangeOut) = Val("float", 20)

(***************************************************************************)
(* blendhog_addon.py: the parameter transfer                               *)
(***************************************************************************)
\* s.strip(chars)
RECURSIVE StripSet(_, _)
StripSet(s, cs) ==
    IF s # <<>> /\ Head(s) \in cs THEN StripSet(Tail(s), cs)
    ELSE IF s # <<>> /\ s[Len(s)] \in cs THEN StripSet(SubSeq(s, 1, Len(s) - 1), cs)
    ELSE s

\* parts[-1].lower() in {"float", "int", "string", "bool", "list"}
TypeSuffixes == {Word.float, Word.int, Word.string, Word.bool, Word.list}

strip_hson_type(raw_name) ==
    LET parts == Split(raw_name, ":")
    IN  Strip(Lower(IF Len(parts) > 1 /\ Lower(parts[Len(parts)]) \in TypeSuffixes
                    THEN Join(SubSeq(parts, 1, Len(parts) - 1), ":")
                    ELSE raw_name))

extract_json_segments(raw_name) ==
    LET s == Strip(raw_name)
        NonEmptyParts(parts) == SelectSeq(parts, LAMBDA p : p # <<>>)
    IN  IF s # <<>> /\ Head(s) = "[" /\ s[Len(s)] = "]" /\ \E i \in 1..Len(s) : s[i] = ","
        THEN LET parts == Split(Strip(SubSeq(s, 2, Len(s) - 1)), ",")
             IN  NonEmptyParts([i \in 1..Len(parts) |->
                                   Lower(StripSet(Strip(parts[i]), {"'", "\""}))])
        ELSE LET bare == Lower(StripSet(StripSet(s, {"[", "]", "{", "}", "(", ")", "<", ">"}),
                                        {"'", "\""}))
                 kept == SelectSeq(bare, LAMBDA c : c \in Digits \cup LowerLetters \cup {"_", "/"})
             IN  NonEmptyParts(Split(kept, "/"))

match_alias_candidate(j_name, candidate) ==
    LET cand_segs == extract_json_segments(candidate)
        j_segs    == extract_json_segments(j_name)
    IN  /\ cand_segs # <<>>
        /\ \/ /\ Len(cand_segs) = 1
              /\ Len(j_segs) = 2
              /\ j_segs[1] = cand_segs[1]
              /\ j_segs[2] \in {Word.float, Word.int, Word.bool, Word.string}
           \/ \A c \in 1..Len(cand_segs) : \E js \in 1..Len(j_segs) : cand_segs[c] = j_segs[js]

\* Every record of the property group has float_value, so the later
\* branches of the function are never reached.
infer_type_from_hson(h_item) == IF Len(h_item.enum_items) > 0 THEN Word.enum ELSE Word.float

\* copy_value_by_type for the data types execute hands it
copy_value_by_type(h_item, j_item, dt) ==
    IF dt = Word.float THEN [j_item EXCEPT !.float_value = h_item.float_value]
    ELSE IF dt = Word.int THEN [j_item EXCEPT !.int_value = h_item.int_value]
    ELSE IF dt = Word.bool THEN [j_item EXCEPT !.bool_value = h_item.bool_value]
    ELSE IF dt = Word.string
    THEN [j_item EXCEPT !.string_value = IF h_item.list_value # <<>> THEN h_item.list_value[1]
                                         ELSE h_item.string_value]
    ELSE [j_item EXCEPT !.list_value = h_item.list_value]

\* The least element of a non-empty set of positions, 0 for the empty set.
FirstOf(S) == IF S = {} THEN 0 ELSE CHOOSE i \in S : \A j \in S : i <= j

\* transfer_enum_value with _force_update_enum_selection:
\* [item |-> j_item afterwards, ok |-> no exception raised].  The forced
\* update reads bpy.context.object.json_parameters and raises when there is
\* no context object.
transfer_enum_value(h_item, j_item, ctx) ==
    LET sel   == FirstOf({i \in 1..Len(h_item.enum_items) : h_item.enum_items[i].selected})
        clear == [j_item EXCEPT !.enum_items =
                     [i \in 1..Len(@) |-> [@[i] EXCEPT !.selected = FALSE]]]
    IN  IF h_item.enum_items = <<>> THEN [item |-> j_item, ok |-> TRUE]
        ELSE IF sel = 0 THEN [item |-> clear, ok |-> TRUE]
        ELSE LET selected_value == h_item.enum_items[sel].value
                 hit == FirstOf({i \in 1..Len(clear.enum_items) :
                                   Lower(clear.enum_items[i].value) = Lower(selected_value)})
                 marked == IF hit = 0 THEN clear
                           ELSE [clear EXCEPT !.enum_items[hit].selected = TRUE]
             IN  IF hit # 0 /\ ctx = "none" THEN [item |-> marked, ok |-> FALSE]
                 ELSE [item |-> [marked EXCEPT !.string_value = selected_value], ok |-> TRUE]

\* `x in special_aliases`, `x in excluded_parameters`: the global is a list
\* or a dict.
PyIn(x, container) ==
    IF container.k = "dict" THEN DictHas(container, x)
    ELSE \E i \in 1..Len(container.v) : container.v[i] = x

\* lines 339-344: the targets of the first alias candidate that has any
RECURSIVE AliasMatches(_, _)
AliasMatches(candidates, names) ==
    IF candidates = <<>> THEN {}
    ELSE LET this_round == {j \in 1..Len(names) : match_alias_candidate(names[j], candidates[1])}
         IN  IF this_round # {} THEN this_round ELSE AliasMatches(Tail(candidates), names)

\* Faulty variant: a source name without a direct match is paired with
\* every target.
MatchesOrAll(raw_h, names, aliases) ==
    LET direct == {j \in 1..Len(names) :
                      match_segment(strip_hson_type(raw_h), extract_json_segments(names[j]))}
    IN  IF direct = {} THEN 1..Len(names) ELSE direct

\* lines 337-344: the positions of the targets matched for one source name
Matches(raw_h, names, aliases) ==
    LET base_h == strip_hson_type(raw_h)
        direct == {j \in 1..Len(names) : match_segment(base_h, extract_json_segments(names[j]))}
    IN  IF direct = {} /\ PyIn(base_h, aliases)
        THEN AliasMatches(DictGet(aliases, base_h), names)
        ELSE direct

\* lines 348-376 for one source record and its matched targets from j on;
\* st = [jp, transferred, not_transferred]
RECURSIVE CopyMatches(_, _, _, _, _, _)
CopyMatches(st, h_item, matches, j, excluded, ctx) ==
    IF j > Len(st.jp) THEN st
    ELSE IF j \notin matches THEN CopyMatches(st, h_item, matches, j + 1, excluded, ctx)
    ELSE LET segs == extract_json_segments(st.jp[j].name)
             dt   == IF segs # <<>> /\ segs[Len(segs)] \in TypeSuffixes THEN segs[Len(segs)]
                     ELSE infer_type_from_hson(h_item)
             r    == IF dt = Word.enum
                     THEN transfer_enum_value(h_item, st.jp[j], ctx)
                     ELSE [item |-> copy_value_by_type(h_item, st.jp[j], dt), ok |-> TRUE]
         IN  CopyMatches(
                 IF PyIn(Join(segs, "/"), excluded) THEN st
                 ELSE [jp |-> [st.jp EXCEPT ![j] = r.item],
                       transferred |-> IF r.ok THEN st.transferred \cup {h_item.name}
                                       ELSE st.transferred,
                       not_transferred |-> IF r.ok THEN st.not_transferred
                                           ELSE st.not_transferred \cup {h_item.name}],
                 h_item, matches, j + 1, excluded, ctx)

\* Faulty variant: the first source record whose copy raises ends the loop.
RECURSIVE TransferFromStop(_, _, _, _, _, _)
TransferFromStop(st, hp, i, aliases, excluded, ctx) ==
    IF i > Len(hp) THEN st
    ELSE LET names   == [j \in 1..Len(st.jp) |-> st.jp[j].name]
             matches == Matches(hp[i].name, names, aliases)
             after   == IF matches = {}
                        THEN [st EXCEPT !.not_transferred = @ \cup {hp[i].name}]
                        ELSE CopyMatches(st, hp[i], matches, 1, excluded, ctx)
         IN  IF matches # {} /\ hp[i].name \in after.not_transferred THEN after
             ELSE TransferFromStop(after, hp, i + 1, aliases, excluded, ctx)

\* for h_item in obj.hson_parameters: ... (lines 335-376)
RECURSIVE TransferFrom(_, _, _, _, _, _)
TransferFrom(st, hp, i, aliases, excluded, ctx) ==
    IF i > Len(hp) THEN st
    ELSE LET names   == [j \in 1..Len(st.jp) |-> st.jp[j].name]
             matches == Matches(hp[i].name, names, aliases)
         IN  TransferFrom(
                 IF matches = {}
                 THEN [st EXCEPT !.not_transferred = @ \cup {hp[i].name}]
                 ELSE CopyMatches(st, hp[i], matches, 1, excluded, ctx),
                 hp, i + 1, aliases, excluded, ctx)

MaxTransfers == 2

\* OBJECT_OT_universal_parameter_transfer.execute with the object first
\* among context.selected_objects: the loop of line 324 takes the object
\* and then each later one, every one with fresh sets.
Transfer ==
    /\ tr_calls < MaxTransfers
    /\ tr_calls' = tr_calls + 1
    /\ tr_before' = json_parameters
    /\ LET Run(hp, jp) == TransferFrom([jp |-> jp, transferred |-> {}, not_transferred |-> {}],
                                       hp, 1, special_aliases, excluded_parameters,
                                       context_object)
           st == Run(hson_parameters, json_parameters)
           later == [k \in 1..Len(later_objects) |->
                        Run(later_objects[k].hson_parameters, later_objects[k].json_parameters)]
       IN  /\ json_parameters' = st.jp
           /\ transferred' = st.transferred
           /\ not_transferred' = st.not_transferred
           /\ later_objects' = [k \in 1..Len(later_objects) |->
                                   [later_objects[k] EXCEPT !.json_parameters = later[k].jp]]
           /\ later_sets' = [k \in 1..Len(later_objects) |->
                                [transferred |-> later[k].transferred,
                                 not_transferred |-> later[k].not_transferred]]
    /\ UNCHANGED <<special_aliases, excluded_parameters, parameters_json, main_result,
                   tdVars, rsVars, msVars, ntVars, apVars, imVars, mgVars>>

\* The block under `if __name__ == "__main__"`: load_special_aliases()
\* fills a local list and assigns to it by name, which raises at the first
\* group of at least [base, alias]; what load_excluded_parameters() returns
\* is dropped.  The module's two globals are assigned nowhere.
MainBlock ==
    /\ main_result = "none"
    /\ main_result' = IF \E g \in 1..Len(parameters_json.special_aliases) :
                              Len(parameters_json.special_aliases[g]) >= 2
                      THEN "raised" ELSE "registered"
    /\ UNCHANGED <<special_aliases, excluded_parameters, parameters_json, json_parameters,
                   transferred, not_transferred, tr_before, tr_calls, later_objects,
                   later_sets, tdVars, rsVars, msVars, ntVars, apVars, imVars, mgVars>>

\* The records of the object: the source records as update_hson_parameters
\* names them (and one with the capital of a hand-made name), the target
\* records named by a slash path or by a bracketed list.
TransferRecords ==
    LET FloatRecord(n, x) ==
            [HSONParametersPropertyGroup EXCEPT !.name = n, !.float_value = x]
        EnumRecord(n, keys, sel) ==
            [HSONParametersPropertyGroup EXCEPT
               !.name = n,
               !.string_value = IF sel = 0 THEN <<>> ELSE keys[sel],
               !.enum_items = [i \in 1..Len(keys) |->
                                  [HSONParameterListItem EXCEPT !.value = keys[i], !.name = keys[i],
                                                                !.selected = (i = sel)]]]
    IN  [source |->
            { FloatRecord(<<"S", "p", "e", "e", "d", ":">> \o Word.float, 5),
              FloatRecord(<<"s", "p", "e", "e", "d", ":">> \o Word.float, 6),
              EnumRecord(<<"m", "o", "d", "e", ":">> \o Word.enum, <<<<"A">>, <<"B">>>>, 2) },
         target |->
            { FloatRecord(<<"v", "e", "l", "o", "c", "i", "t", "y", "/", "v", "a", "l", "u", "e", "/">>
                              \o Word.float, 1),
              FloatRecord(<<"[", "'", "s", "p", "e", "e", "d", "'", ",", " ", "'">> \o Word.float
                              \o <<"'", "]">>, 2),
              EnumRecord(<<"m", "o", "d", "e", "/">> \o Word.enum, <<<<"b">>, <<"A">>>>, 1) },
         later |->
            { [hson_parameters |-> <<FloatRecord(<<"s", "p", "e", "e", "d", ":">> \o Word.float, 6)>>,
               json_parameters |->
                  <<FloatRecord(<<"[", "'", "s", "p", "e", "e", "d", "'", ",", " ", "'">>
                                    \o Word.float \o <<"'", "]">>, 2)>>],
              [hson_parameters |->
                  <<EnumRecord(<<"m", "o", "d", "e", ":">> \o Word.enum, <<<<"A">>, <<"B">>>>, 2)>>,
               json_parameters |->
                  <<EnumRecord(<<"m", "o", "d", "e", "/">> \o Word.enum, <<<<"b">>, <<"A">>>>, 1),
                    EnumRecord(<<"a", "l", "t", "/", "m", "o", "d", "e", "/">> \o Word.enum,
                               <<<<"A">>>>, 1)>>] }]

\* The contents of parameters.json: nothing listed, an alias group, an
\* excluded path, both, and a group too short to be an alias group.
ParameterFiles ==
    LET speed_group == << <<"S", "p", "e", "e", "d">>,
                          <<"v", "e", "l", "o", "c", "i", "t", "y", "/", "v", "a", "l", "u", "e">> >>
        speed_path  == <<"s", "p", "e", "e", "d", "/">> \o Word.float
        alias_path  == <<"v", "e", "l", "o", "c", "i", "t", "y", "/", "v", "a", "l", "u", "e", "/">>
                           \o Word.float
    IN  { [special_aliases |-> <<>>, excluded_parameters |-> <<>>],
          [special_aliases |-> <<speed_group>>, excluded_parameters |-> <<>>],
          [special_aliases |-> <<>>, excluded_parameters |-> <<speed_path>>],
          [special_aliases |-> <<speed_group>>, excluded_parameters |-> <<alias_path>>],
          [special_aliases |-> << <<<<"o", "n", "e">>>> >>, excluded_parameters |-> <<>>] }

MaxRecords == 2

InitTransfer ==
    /\ structs = <<>>
    /\ enums = NoEnums
    /\ objects = EmptyDict
    /\ parameters_json \in ParameterFiles
    /\ hson_parameters \in SeqsUpTo(TransferRecords.source, MaxRecords)
    /\ json_parameters \in SeqsUpTo(TransferRecords.target, MaxRecords)
    \* a collection holds one record per name
    /\ \A i, j \in 1..Len(hson_parameters) : i # j => hson_parameters[i] # hson_parameters[j]
    /\ \A i, j \in 1..Len(json_parameters) : i # j => json_parameters[i] # json_parameters[j]
    /\ later_objects \in {<<>>} \cup {<<o>> : o \in TransferRecords.later}
    /\ hson_uuid = ""
    /\ context_object \in {"obj", "none"}
    /\ Idle({"object", "transfer"})

SpecTransfer == InitTransfer /\ [][Transfer \/ MainBlock]_vars

(***************************************************************************)
(* Claims about the parameter transfer                                     *)
(***************************************************************************)
\* The positions of the targets a source name matches segment by segment.
DirectTargets(raw_h, jp) ==
    {j \in 1..Len(jp) : match_segment(strip_hson_type(raw_h), extract_json_segments(jp[j].name))}

\* The alias candidates parameters.json lists for a base name.
AliasesOf(base_h) ==
    LET groups == parameters_json.special_aliases
        hits   == {g \in 1..Len(groups) : Len(groups[g]) >= 2
                                           /\ Strip(Lower(groups[g][1])) = base_h}
    IN  IF hits = {} THEN <<>>
        ELSE LET g == CHOOSE x \in hits : \A y \in hits : y <= x
             IN  [i \in 1..(Len(groups[g]) - 1) |-> Strip(groups[g][i + 1])]

\* The positions of the targets whose segments contain every segment of the
\* first alias candidate that has such a target.
AliasTargets(raw_h, jp) ==
    AliasMatches(AliasesOf(strip_hson_type(raw_h)), [j \in 1..Len(jp) |-> jp[j].name])

\* The slash-joined segment path of a target is listed under
\* excluded_parameters in parameters.json.
ListedExcluded(j_name) ==
    \E e \in 1..Len(parameters_json.excluded_parameters) :
        Strip(parameters_json.excluded_parameters[e]) = Join(extract_json_segments(j_name), "/")

\* The positions of the targets the transfer is to pair a source name with:
\* the direct matches, or without any the alias matches.
TargetsOf(raw_h, jp) ==
    IF DirectTargets(raw_h, jp) # {} THEN DirectTargets(raw_h, jp) ELSE AliasTargets(raw_h, jp)

\* Source record i has no direct match, its base name has an alias list
\* one candidate of which target j matches, j is a float target that is not
\* excluded, and no later source record is paired with j.
AliasCase(i, j) ==
    /\ DirectTargets(hson_parameters[i].name, tr_before) = {}
    /\ j \in AliasTargets(hson_parameters[i].name, tr_before)
    /\ ~ListedExcluded(tr_before[j].name)
    /\ LET segs == extract_json_segments(tr_before[j].name)
       IN  segs # <<>> /\ segs[Len(segs)] = Word.float
    /\ \A k \in (i + 1)..Len(hson_parameters) :
           j \notin TargetsOf(hson_parameters[k].name, tr_before)

\* C7: after a transfer, a source parameter without a direct match whose
\* base name has an alias list in parameters.json, one candidate of which a
\* float target matches, is in transferred and the target has its float
\* value.
C7_AliasTransfer ==
    tr_calls > 0 =>
        \A i \in 1..Len(hson_parameters), j \in 1..Len(tr_before) :
            AliasCase(i, j) =>
                /\ hson_parameters[i].name \in transferred
                /\ json_parameters[j].float_value = hson_parameters[i].float_value

\* C8: after a transfer, a source parameter all of whose matched targets
\* (direct or through an alias) are listed as excluded in parameters.json
\* is in neither transferred nor not_transferred, and those targets are as
\* they were.
C8_Exclusion ==
    tr_calls > 0 =>
        \A i \in 1..Len(hson_parameters) :
            LET raw_h   == hson_parameters[i].name
                targets == TargetsOf(raw_h, tr_before)
            IN  (targets # {} /\ \A j \in targets : ListedExcluded(tr_before[j].name)) =>
                    /\ raw_h \notin transferred
                    /\ raw_h \notin not_transferred
                    /\ \A j \in targets : json_parameters[j] = tr_before[j]

\* Source record i has no target matching it segment by segment and none
\* through an alias candidate listed for its base name.
Unmatched(i) ==
    /\ DirectTargets(hson_parameters[i].name, tr_before) = {}
    /\ AliasTargets(hson_parameters[i].name, tr_before) = {}

\* C13: after a transfer, every source parameter with no direct segment
\* match and no alias match is in not_transferred and not in transferred.
C13_UnmatchedRecorded ==
    tr_calls > 0 =>
        \A i \in 1..Len(hson_parameters) :
            Unmatched(i) =>
                /\ hson_parameters[i].name \in not_transferred
                /\ hson_parameters[i].name \notin transferred

\* A transfer has run on an object with targets, one source parameter
\* matched nothing and is recorded so, another one was transferred.
C13_Witness ==
    /\ tr_calls > 0
    /\ tr_before # <<>>
    /\ \E i, k \in 1..Len(hson_parameters) :
          /\ Unmatched(i)
          /\ hson_parameters[i].name \in not_transferred
          /\ hson_parameters[i].name \notin transferred
          /\ ~Unmatched(k)
          /\ hson_parameters[k].name \in transferred

\* The data type the transfer resolves for a source record and a target
\* name: the target's last segment when it is a type word, else the type
\* inferred from the source record.
TypeFor(h_item, j_name) ==
    LET segs == extract_json_segments(j_name)
    IN  IF segs # <<>> /\ segs[Len(segs)] \in TypeSuffixes THEN segs[Len(segs)]
        ELSE infer_type_from_hson(h_item)

\* The copy of source record i into one of its matched targets raises.
CopyFails(i) ==
    \E j \in DirectTargets(hson_parameters[i].name, tr_before) :
        /\ TypeFor(hson_parameters[i], tr_before[j].name) = Word.enum
        /\ ~transfer_enum_value(hson_parameters[i], tr_before[j], context_object).ok

\* Source record k of hp was processed: its name is in one of the two
\* sets, and a float target it matches has its float value unless a later
\* source record matches that target too.
Processed(hp, before, after, sets, k) ==
    /\ hp[k].name \in sets.transferred \cup sets.not_transferred
    /\ \A j \in DirectTargets(hp[k].name, before) :
          (/\ TypeFor(hp[k], before[j].name) = Word.float
           /\ \A l \in (k + 1)..Len(hp) : j \notin DirectTargets(hp[l].name, before))
             => /\ after[j].float_value = hp[k].float_value
                /\ hp[k].name \in sets.transferred

\* C14: after a transfer in which the copy of one matched source field
\* raised, that field is in not_transferred, every later source parameter
\* of the object was processed, and so was every later selected object.
C14_CopyFailureContained ==
    tr_calls > 0 =>
        \A i \in 1..Len(hson_parameters) :
            CopyFails(i) =>
                /\ hson_parameters[i].name \in not_transferred
                /\ \A k \in (i + 1)..Len(hson_parameters) :
                       Processed(hson_parameters, tr_before, json_parameters,
                                 [transferred |-> transferred,
                                  not_transferred |-> not_transferred], k)
                /\ Len(later_sets) = Len(later_objects)
                /\ \A o \in 1..Len(later_objects) :
                       \A k \in 1..Len(later_objects[o].hson_parameters) :
                          /\ later_objects[o].hson_parameters[k].name
                                 \in later_sets[o].transferred \cup later_sets[o].not_transferred
                          /\ later_objects[o].hson_parameters[k].enum_items = <<>> =>
                                /\ later_objects[o].hson_parameters[k].name
                                       \in later_sets[o].transferred
                                /\ \E j \in 1..Len(later_objects[o].json_parameters) :
                                       later_objects[o].json_parameters[j].float_value =
                                          later_objects[o].hson_parameters[k].float_value

\* A transfer ran with no context object: the copy of an enum field
\* raised, a later float field of the same object was transferred into its
\* target, and a later selected object was transferred too.
C14_Witness ==
    /\ tr_calls > 0
    /\ later_objects # <<>>
    /\ later_sets # <<>>
    /\ later_sets[1].transferred # {}
    /\ \E i \in 1..Len(hson_parameters) :
          /\ CopyFails(i)
          /\ hson_parameters[i].name \in not_transferred
          /\ \E k \in (i + 1)..Len(hson_parameters) :
                /\ hson_parameters[k].name \in transferred
                /\ \E j \in DirectTargets(hson_parameters[k].name, tr_before) :
                      /\ json_parameters[j].float_value = hson_parameters[k].float_value
                      /\ tr_before[j].float_value # hson_parameters[k].float_value

\* The lesser of two lengths.
Shorter(a, b) == IF Len(a) <= Len(b) THEN Len(a) ELSE Len(b)

\* C16: after a transfer, an enum target paired with an enum source (and
\* with no later source) has at every position present in both option
\* lists the source option's selected flag, and when one of its options is
\* selected its string_value is that option's value.
C16_PairwiseByPosition ==
    tr_calls > 0 =>
        \A i \in 1..Len(hson_parameters) :
            \A j \in DirectTargets(hson_parameters[i].name, tr_before) :
                (/\ hson_parameters[i].enum_items # <<>>
                 /\ TypeFor(hson_parameters[i], tr_before[j].name) = Word.enum
                 /\ \A l \in (i + 1)..Len(hson_parameters) :
                        j \notin DirectTargets(hson_parameters[l].name, tr_before))
                  => /\ \A p \in 1..Shorter(hson_parameters[i].enum_items,
                                              json_parameters[j].enum_items) :
                            json_parameters[j].enum_items[p].selected =
                               hson_parameters[i].enum_items[p].selected
                     /\ \A p \in 1..Len(json_parameters[j].enum_items) :
                            (/\ json_parameters[j].enum_items[p].selected
                             /\ \A q \in 1..(p - 1) : ~json_parameters[j].enum_items[q].selected)
                               => json_parameters[j].string_value =
                                     json_parameters[j].enum_items[p].value

(***************************************************************************)
(* The options of an enum record in the panel (__init__.py)                *)
(***************************************************************************)
\* OBJECT_PT_HSONProperties.draw shows the records of context.object and,
\* for a record whose name ends in ":enum", one checkbox per option bound
\* to its `selected` flag.  Ticking it sets the flag and runs
\* update_enum_selection; clearing it sets the flag and runs the same
\* callback, which then does nothing.
SetSelected ==
    /\ context_object = "obj"
    /\ \E i \in 1..Len(hson_parameters) :
          /\ LET parts == Split(hson_parameters[i].name, ":")
             IN  parts[Len(parts)] = Word.enum
          /\ \E j \in 1..Len(hson_parameters[i].enum_items), b \in BOOLEAN :
                hson_parameters' =
                   [hson_parameters EXCEPT ![i] =
                       IF b THEN SelectOption(@, j, TRUE)
                       ELSE [@ EXCEPT !.enum_items[j].selected = FALSE]]
    /\ UNCHANGED <<tdVars, rsVars, msVars, ntVars, trVars, imVars, obj_type, imported_params,
                   ap_params, ap_types, ap_result, ap_calls, hson_uuid, enum_props,
                   context_object, mgVars>>

\* An object whose struct has one enum field, with every enum table and
\* imported value of the apply calls, a target record with options, and
\* the object being context.object or not.
InitEnum ==
    /\ \E c \in {x \in ApplyCases : /\ x.obj_type = Nm.Sel \o <<".", "0", "0", "1">>
                                     /\ ~DictHas(x.imported, RangeKey.rangeIn)} :
          /\ obj_type = c.obj_type
          /\ objects = c.objects
          /\ structs = c.structs
          /\ enums = c.enums
          /\ imported_params = c.imported
    /\ hson_parameters = <<>>
    /\ hson_uuid = ""
    /\ context_object \in {"obj", "other"}
    /\ parameters_json = [special_aliases |-> <<>>, excluded_parameters |-> <<>>]
    /\ json_parameters \in {<<t>> : t \in {r \in TransferRecords.target : r.enum_items # <<>>}}
    /\ later_objects = <<>>
    /\ Idle({"apply", "object", "transfer"})

SpecEnum == InitEnum /\ [][Apply \/ SetSelected \/ Transfer]_vars

\* The number of selected options of a record.
SelectedCount(param) == Cardinality({j \in 1..Len(param.enum_items) : param.enum_items[j].selected})

\* C11: after a successful template application, and whatever options were
\* ticked or cleared and whatever was transferred since, every record of
\* the object with options, source or target, has exactly one selected.
C11_SingleSelection ==
    (ap_calls > 0 /\ ap_result.success) =>
        /\ \A i \in 1..Len(hson_parameters) :
              hson_parameters[i].enum_items # <<>> => SelectedCount(hson_parameters[i]) = 1
        /\ \A j \in 1..Len(json_parameters) :
              json_parameters[j].enum_items # <<>> => SelectedCount(json_parameters[j]) = 1

\* Option j of source record i is selected after the step and was not
\* before it: the step ticked it, or a successful application added it
\* selected.
NewlySelected(i, j) ==
    /\ hson_parameters'[i].enum_items[j].selected
    /\ IF ap_calls' = ap_calls
       THEN ~hson_parameters[i].enum_items[j].selected
       ELSE ap_result'.success

\* C12: a step that selects an option of a source record leaves no other
\* option of that record selected and the record's string_value equal to
\* the option's value, and a tick in the panel changes no other record.
C12_SelectClearsSiblings ==
    [][\A i \in 1..Len(hson_parameters') :
          \A j \in 1..Len(hson_parameters'[i].enum_items) :
             NewlySelected(i, j) =>
                /\ \A k \in 1..Len(hson_parameters'[i].enum_items) :
                      k # j => ~hson_parameters'[i].enum_items[k].selected
                /\ hson_parameters'[i].string_value = hson_parameters'[i].enum_items[j].value
                /\ ap_calls' = ap_calls =>
                      \A r \in 1..Len(hson_parameters) :
                         r # i => hson_parameters'[r] = hson_parameters[r]]_vars

(***************************************************************************)
(* The batch importers (hson_module.py, xml_module.py)                     *)
(***************************************************************************)
\* _batch_size of both operator classes
batch_size == 25

\* What the caller of apply_hson_template_to_object gets for a new object
\* whose mesh carries the record's type: the flag and the length of the
\* tuple (lines 227-234, and the triple of line 376 for a type that
\* resolves).
ApplyReturn(objs, ss, raw_type) ==
    LET template_obj == TemplateObjOf(objs, raw_type)
    IN  IF template_obj = NoneV THEN [success |-> FALSE, arity |-> 3]
        ELSE IF template_obj.struct = "" THEN [success |-> FALSE, arity |-> 2]
        ELSE IF template_obj.struct \notin DOMAIN ss THEN [success |-> FALSE, arity |-> 2]
        ELSE [success |-> TRUE, arity |-> 3]

\* An operator instance the file browser hands to execute.  template_data 0
\* stands for None, n > 0 for the contents of version n of the file;
\* `imported` is the instance's own _imported_objects (hson only), `returns`
\* what each of its TIMER events ended with, `lost` the modification times
\* of the file states its reload checks found missing or unreadable;
\* `linked` gives, for each object of `imported`, its parent (the number of
\* the parent's record, 0 for none) and its hson_parentId marker (0 when it
\* carries none).
ImportOperator(kind, files) ==
    [kind |-> kind, files |-> files, status |-> "new", imported |-> <<>>, linked |-> <<>>,
     template_file |-> FALSE, template_data |-> 0, template_mod_time |-> 0,
     returns |-> <<>>, load_warnings |-> 0, reload_warnings |-> 0, apply_warnings |-> <<>>,
     lost |-> {}]

\* What a TIMER event ended with (the set modal returned, or the exception
\* that left it) and how many records it left in the queue.
Returned(value, queue) == [value |-> value, left |-> Len(queue)]

\* Faulty variant: the objects that wait for their parent are left waiting.
LinkDeferredNever(imported, linked) == linked

\* self._imported_objects.get(parent_id) for the parent of a record: the
\* object made from the record of that id, if the operator imported it.
ParentImported(imported, rec, parent_id) ==
    \E i \in 1..Len(imported) : imported[i].op = rec.op /\ imported[i].n = parent_id

\* Lines 217-224, after the loop of process_batch: every imported object
\* that carries the marker and whose parent is imported by now gets the
\* parent and loses the marker.
LinkDeferred(imported, linked) ==
    [i \in 1..Len(linked) |->
        IF linked[i].marker # 0 /\ ParentImported(imported, imported[i], linked[i].marker)
        THEN [parent |-> linked[i].marker, marker |-> 0]
        ELSE linked[i]]

\* Lines 185-192: the parent of a new object is set at once when the
\* parent is imported already, and the marker is left on it otherwise.
NewLink(imported, rec) ==
    IF rec.parent = 0 THEN [parent |-> 0, marker |-> 0]
    ELSE IF ParentImported(imported, rec, rec.parent) THEN [parent |-> rec.parent, marker |-> 0]
    ELSE [parent |-> 0, marker |-> rec.parent]

\* execute: the class's queue is cleared and filled with the records of the
\* selected files; the hson operator rebinds its own _imported_objects, the
\* xml operator clears the dict of the class; the template is loaded.
Execute(o) ==
    /\ o \in 1..Len(im_ops)
    /\ im_ops[o].status = "new"
    /\ im_tick.op = 0
    /\ LET op     == im_ops[o]
           loaded == im_disk.exists /\ im_disk.valid
       IN  IF op.kind = "hson"
           THEN /\ im_queue' = [im_queue EXCEPT !.hson = op.files]
                /\ im_ops' = [im_ops EXCEPT ![o] =
                      IF op.files = <<>> THEN [@ EXCEPT !.status = "cancelled"]
                      ELSE [@ EXCEPT !.status = "modal",
                                     !.template_file = im_disk.exists,
                                     !.template_data = IF loaded THEN im_disk.version ELSE 0,
                                     !.template_mod_time = IF loaded THEN im_disk.mtime ELSE 0,
                                     !.load_warnings = IF loaded THEN 0 ELSE 1]]
                /\ UNCHANGED im_xml_imported
           ELSE /\ im_queue' = [im_queue EXCEPT !.xml = op.files]
                /\ im_xml_imported' = <<>>
                /\ im_ops' = [im_ops EXCEPT ![o] =
                      IF op.files = <<>> THEN [@ EXCEPT !.status = "finished"]
                      ELSE [@ EXCEPT !.status = "modal",
                                     !.template_data = IF loaded THEN im_disk.version ELSE 0]]
    /\ UNCHANGED <<im_disk, im_tick, im_log, tdVars, rsVars, msVars, ntVars, apVars, trVars, mgVars>>

\* One turn of the while loop of process_batch under a TIMER event, and,
\* when the loop ends with it, the rest of modal.  The hson loop begins
\* with check_reload_template; its unpacking of the returned tuple into
\* three names raises for a pair, which ends the operator.
ProcessItem(o) ==
    /\ o \in 1..Len(im_ops)
    /\ im_ops[o].status = "modal"
    /\ im_tick.op \in {0, o}
    /\ im_queue[im_ops[o].kind] # <<>>
    /\ LET op       == im_ops[o]
           kind     == op.kind
           stale    == /\ kind = "hson"
                       /\ op.template_file
                       /\ im_disk.exists
                       /\ im_disk.mtime > op.template_mod_time
           checked  == IF kind = "hson" /\ op.template_file /\ ~(im_disk.exists /\ im_disk.valid)
                       THEN [op EXCEPT !.lost = @ \cup {im_disk.mtime}]
                       ELSE op
           reloaded == IF stale /\ im_disk.valid
                       THEN [checked EXCEPT !.template_data = im_disk.version,
                                            !.template_mod_time = im_disk.mtime]
                       ELSE IF stale THEN [checked EXCEPT !.reload_warnings = @ + 1]
                       ELSE checked
           rec      == Head(im_queue[kind])
           rest     == Tail(im_queue[kind])
           ret      == ApplyReturn(objects, structs, rec.type)
           applies  == reloaded.template_data # 0
           raises   == kind = "hson" /\ applies /\ ret.arity # 3
           warned   == IF applies /\ ~ret.success
                       THEN [reloaded EXCEPT !.apply_warnings = Append(@, rec)]
                       ELSE reloaded
           kept     == IF kind = "hson"
                       THEN [warned EXCEPT !.imported = Append(@, rec),
                                           !.linked = Append(@, NewLink(warned.imported, rec))]
                       ELSE warned
           batched  == [kept EXCEPT !.linked = LinkDeferred(kept.imported, @)]
           count    == im_tick.count + 1
           ends     == rest = <<>> \/ count = batch_size
       IN  /\ im_queue' = [im_queue EXCEPT ![kind] = rest]
           /\ im_log' = Append(im_log, [by |-> o, rec |-> rec, tick |-> Len(op.returns) + 1,
                                        data |-> reloaded.template_data])
           /\ IF raises
              THEN /\ im_ops' = [im_ops EXCEPT ![o] =
                                    [reloaded EXCEPT !.status = "raised",
                                                     !.returns = Append(@, Returned("ERROR", rest))]]
                   /\ im_tick' = [op |-> 0, count |-> 0]
                   /\ UNCHANGED im_xml_imported
              ELSE /\ im_xml_imported' = IF kind = "xml" THEN Append(im_xml_imported, rec)
                                         ELSE im_xml_imported
                   /\ im_ops' = [im_ops EXCEPT ![o] =
                         IF ~ends THEN kept
                         ELSE IF rest = <<>>
                         THEN [batched EXCEPT !.status = "finished",
                                              !.returns = Append(@, Returned("FINISHED", rest))]
                         ELSE [batched EXCEPT !.returns = Append(@, Returned("PASS_THROUGH", rest))]]
                   /\ im_tick' = IF ends THEN [op |-> 0, count |-> 0]
                                 ELSE [op |-> o, count |-> count]
    /\ UNCHANGED <<im_disk, tdVars, rsVars, msVars, ntVars, apVars, trVars, mgVars>>

\* A TIMER event that finds the queue of the class empty: process_batch
\* takes nothing, links what it can, and modal finishes the operator
\* (perform_parenting reads the key parentId, which no object carries).
EmptyTick(o) ==
    /\ o \in 1..Len(im_ops)
    /\ im_ops[o].status = "modal"
    /\ im_tick.op = 0
    /\ im_queue[im_ops[o].kind] = <<>>
    /\ im_ops' = [im_ops EXCEPT ![o] = [@ EXCEPT !.status = "finished",
                                                 !.linked = LinkDeferred(im_ops[o].imported, @),
                                                 !.returns = Append(@, Returned("FINISHED", <<>>))]]
    /\ UNCHANGED <<im_queue, im_xml_imported, im_disk, im_tick, im_log,
                   tdVars, rsVars, msVars, ntVars, apVars, trVars, mgVars>>

MaxEdits == 1

\* Somebody saves the template file (well-formed or not) or removes it
\* while an import is under way; a save advances the modification time.
TemplateFileEvent ==
    /\ \E o \in 1..Len(im_ops) : im_ops[o].status \in {"new", "modal"}
    /\ im_disk.mtime <= MaxEdits
    /\ \E ev \in {"write", "corrupt", "delete"} :
          im_disk' =
             IF ev = "write"
             THEN [exists |-> TRUE, valid |-> TRUE, mtime |-> im_disk.mtime + 1,
                   version |-> im_disk.version + 1]
             ELSE IF ev = "corrupt"
             THEN [im_disk EXCEPT !.exists = TRUE, !.valid = FALSE, !.mtime = @ + 1]
             ELSE [im_disk EXCEPT !.exists = FALSE, !.valid = FALSE, !.mtime = @ + 1]
    /\ UNCHANGED <<im_ops, im_queue, im_xml_imported, im_tick, im_log,
                   tdVars, rsVars, msVars, ntVars, apVars, trVars, mgVars>>

MaxShort == 2

\* The records of the files selected for an import: a few, or one more
\* than a batch; all of a type the template resolves, or one of them of a
\* type without entry, without struct, or with a struct the template lacks.
\* None has a parentId (parent 0).
ImportFiles(o) ==
    LET Plain(n) == [i \in 1..n |-> [op |-> o, n |-> i, type |-> Nm.Dup, parent |-> 0]]
        lengths  == 0..MaxShort \cup {batch_size + 1}
    IN  {Plain(n) : n \in lengths}
        \cup {[Plain(n) EXCEPT ![p].type = t] :
                 n \in 1..MaxShort, p \in 1..MaxShort, t \in {Nm.Ghost, Nm.NoStruct, Nm.BadStruct}}
        \cup {[Plain(batch_size + 1) EXCEPT ![1].type = t] : t \in {Nm.NoStruct, Nm.Ghost}}

InitImport ==
    /\ \E c \in {x \in ApplyCases : x.obj_type = Nm.Dup /\ x.imported = NoneV} :
          /\ structs = c.structs
          /\ objects = c.objects
          /\ enums = c.enums
    /\ \E k1 \in {"hson", "xml"}, f1 \in ImportFiles(1) :
          \/ im_ops = <<ImportOperator(k1, f1)>>
          \/ \E k2 \in {"hson", "xml"}, f2 \in {f \in ImportFiles(2) : Len(f) \in 1..MaxShort
                                                   /\ \A i \in 1..Len(f) : f[i].type = Nm.Dup} :
                im_ops = <<ImportOperator(k1, f1), ImportOperator(k2, f2)>>
    /\ im_disk \in {[exists |-> TRUE, valid |-> TRUE, mtime |-> 1, version |-> 1],
                    [exists |-> TRUE, valid |-> FALSE, mtime |-> 1, version |-> 0],
                    [exists |-> FALSE, valid |-> FALSE, mtime |-> 0, version |-> 0]}
    /\ Idle({"import"})

SpecImport ==
    InitImport /\ [][\/ \E o \in 1..2 : Execute(o) \/ ProcessItem(o) \/ EmptyTick(o)
                     \/ TemplateFileEvent]_vars

(***************************************************************************)
(* Claims about the batch importers                                        *)
(***************************************************************************)
\* The records of the log taken by operator o.
TakenBy(o) == SelectSeq(im_log, LAMBDA e : e.by = o)

\* C15: a record whose type has no template entry, or an entry without
\* struct or with a struct the template lacks, taken while template data is
\* loaded, gets a warning from the importer that took it; the import does
\* not end on it, so an operator that has ended leaves none of its records
\* in the queue.
C15_SchemaErrorsNonFatal ==
    \A k \in 1..Len(im_log) :
        LET e  == im_log[k]
            op == im_ops[e.by]
        IN  (e.data # 0 /\ ~ApplyReturn(objects, structs, e.rec.type).success) =>
                /\ \E w \in 1..Len(op.apply_warnings) : op.apply_warnings[w] = e.rec
                /\ op.status \in {"modal", "finished"}
                /\ op.status = "finished" =>
                      \A q \in 1..Len(im_queue[op.kind]) : im_queue[op.kind][q].op # e.by

\* C17: an hson operator that loaded its template reports each file state
\* its reload check found missing or unreadable exactly once, and every
\* record it took was resolved against loaded template data.
C17_ReloadFailureReportedOnce ==
    \A o \in 1..Len(im_ops) :
        (im_ops[o].kind = "hson" /\ im_ops[o].template_file /\ im_ops[o].load_warnings = 0) =>
            /\ im_ops[o].reload_warnings = Cardinality(im_ops[o].lost)
            /\ \A k \in 1..Len(TakenBy(o)) : TakenBy(o)[k].data # 0

\* C18: all the records an hson operator took under one TIMER event were
\* resolved against the same template data.
C18_ReloadPerChunk ==
    \A k, l \in 1..Len(im_log) :
        (/\ im_log[k].by = im_log[l].by
         /\ im_ops[im_log[k].by].kind = "hson"
         /\ im_log[k].tick = im_log[l].tick)
          => im_log[k].data = im_log[l].data

\* C19: under each TIMER event an operator takes at most batch_size
\* records; the records leave a queue in the order they were queued and no
\* record is taken twice; a TIMER event ends with FINISHED when it leaves
\* the queue empty and with PASS_THROUGH otherwise.
C19_ChunkedImport ==
    /\ \A o \in 1..Len(im_ops) :
          /\ \A t \in 1..(Len(im_ops[o].returns) + 1) :
                Len(SelectSeq(TakenBy(o), LAMBDA e : e.tick = t)) <= batch_size
          /\ \A t \in 1..Len(im_ops[o].returns) :
                im_ops[o].returns[t].value =
                   IF im_ops[o].returns[t].left = 0 THEN "FINISHED" ELSE "PASS_THROUGH"
    /\ \A k, l \in 1..Len(im_log) :
          /\ k # l => im_log[k].rec # im_log[l].rec
          /\ (k < l /\ im_log[k].rec.op = im_log[l].rec.op) => im_log[k].rec.n < im_log[l].rec.n

\* C20: every record is taken by the operator that queued it, and a record
\* of an operator that is still running is in the log or in the queue of
\* its class.
C20_NoSharedState ==
    /\ \A k \in 1..Len(im_log) : im_log[k].rec.op = im_log[k].by
    /\ \A o \in 1..Len(im_ops) :
          im_ops[o].status = "modal" =>
             \A i \in 1..Len(im_ops[o].files) :
                \/ \E k \in 1..Len(im_log) : im_log[k].rec = im_ops[o].files[i]
                \/ \E q \in 1..Len(im_queue[im_ops[o].kind]) :
                      im_queue[im_ops[o].kind][q] = im_ops[o].files[i]

(***************************************************************************)
(* Claims about the schema and the expansion of sub-structs                *)
(***************************************************************************)
\* C21: a call of apply_hson_template_to_object leaves every struct
\* definition of the template data with the field list it had before the
\* call.
C21_SchemaUnchanged == [][structs' = structs]_vars

\* The names of a struct's own fields and of the fields of its direct parent.
OwnAndParentNames(ss, s) ==
    {ss[s].fields[i].name : i \in 1..Len(ss[s].fields)}
    \cup (IF ss[s].parent \in DOMAIN ss
          THEN {ss[ss[s].parent].fields[i].name : i \in 1..Len(ss[ss[s].parent].fields)}
          ELSE {})

\* A field whose type names a struct of the schema.
IsInlineStruct(ss, f) ==
    /\ ~(TypeLower(f.type) = "array" /\ f.subtype # "")
    /\ TypeLower(f.type) \notin recognized \cup {"object_reference"}
    /\ ~IsEnumRef(f.type)
    /\ f.type \in DOMAIN ss

\* An array field whose subtype names a struct of the schema.
IsStructArray(ss, f) ==
    /\ TypeLower(f.type) = "array" /\ f.subtype # ""
    /\ TypeLower(f.subtype) \notin primitives
    /\ f.subtype \in DOMAIN ss

\* The keys one parent level gives: {field}:{subfield} and
\* {field}{index}:{subfield} for index in 0..array_size-1.
OneLevelKeys(ss, fields) ==
    UNION { IF IsInlineStruct(ss, fields[i])
            THEN {fields[i].name \o <<":">> \o n : n \in OwnAndParentNames(ss, fields[i].type)}
            ELSE IF IsStructArray(ss, fields[i])
            THEN {fields[i].name \o IntToChars(idx) \o <<":">> \o n :
                     idx \in 0..(ArraySizeOf(fields[i]) - 1),
                     n \in OwnAndParentNames(ss, fields[i].subtype)}
            ELSE {} : i \in 1..Len(fields) }

\* The resolved keys that come from a sub-struct: those with a colon, the
\* two range keys apart.
ExpandedKeys(params) ==
    {k \in {DictKeys(params)[i] : i \in 1..Len(params.v)} :
        Contains(k, <<":">>) /\ k \notin {RangeKey.rangeIn, RangeKey.rangeOut}}

\* C22: after a successful application the keys expanded from the inline
\* sub-struct fields and the array-of-struct fields of the object's struct
\* are those of the sub-struct's own fields and of its direct parent's
\* fields, and of no higher ancestor.
C22_OneParentLevel ==
    [][ap_result'.success /\ ap_calls' = ap_calls + 1
          => ExpandedKeys(ap_params') = OneLevelKeys(structs, AppliedFields)]_vars


\* The struct and its ancestors, the struct first, as far as the parent
\* links lead without a repeat.
RECURSIVE AncestryOf(_, _, _)
AncestryOf(ss, s, seen) ==
    IF s = "" \/ s \notin DOMAIN ss \/ s \in seen THEN <<>>
    ELSE <<s>> \o AncestryOf(ss, ss[s].parent, seen \cup {s})

\* The positions of the declarations of a name in a field list.
DeclaredAt(fields, n) == {i \in 1..Len(fields) : fields[i].name = n}

\* The last declaration of the name in the struct's own field list.
OwnDeclaration(ss, s, n) ==
    ss[s].fields[CHOOSE i \in DeclaredAt(ss[s].fields, n) :
                     \A j \in DeclaredAt(ss[s].fields, n) : j <= i]

\* A struct of the object's chain and one of its ancestors both declare n.
DeclaredTwice(chain, n) ==
    \E c, a \in 1..Len(chain) :
        /\ c < a
        /\ DeclaredAt(structs[chain[c]].fields, n) # {}
        /\ DeclaredAt(structs[chain[a]].fields, n) # {}

\* C23: when a struct of the object and one of its ancestors declare a
\* field of the same name, the flattened list holds both declarations, the
\* ancestor's first, and after a successful application the parameter of
\* that name has the type and the value of the most derived declaration.
C23_LastWriterWins ==
    LET chain == AncestryOf(structs, TemplateObjOf(objects, obj_type).struct, {})
    IN  ap_result.success =>
            \A c \in 1..Len(chain) : \A p \in 1..Len(structs[chain[c]].fields) :
                LET n == structs[chain[c]].fields[p].name
                    f == OwnDeclaration(structs, chain[c], n)
                IN  /\ \A a \in (c + 1)..Len(chain) :
                           \A q \in DeclaredAt(structs[chain[a]].fields, n) :
                               \E i, j \in 1..Len(AppliedFields) :
                                   /\ i < j
                                   /\ AppliedFields[i] = structs[chain[a]].fields[q]
                                   /\ AppliedFields[j] = f
                    /\ (/\ DeclaredTwice(chain, n)
                        /\ \A d \in 1..(c - 1) : DeclaredAt(structs[chain[d]].fields, n) = {}
                        /\ IsScalarField(f) /\ ~IsEnumRef(f.type) /\ TypeLower(f.type) # "string")
                           => /\ DictGet(ap_types, n) = f.type
                              /\ DictGet(ap_params, n) = PrecedenceValue(f)

\* A successful application to an object whose struct declares speed as
\* uint32 and whose parent declares it as float: the parameter is the
\* integer zero of the child's type.
C23_Witness ==
    LET chain == AncestryOf(structs, TemplateObjOf(objects, obj_type).struct, {})
    IN  /\ ap_result.success
        /\ \E n \in {AppliedFields[i].name : i \in 1..Len(AppliedFields)} :
               /\ DeclaredTwice(chain, n)
               /\ \E i, j \in DeclaredAt(AppliedFields, n) :
                      i < j /\ AppliedFields[i].type # AppliedFields[j].type
               /\ DictGet(ap_types, n) = "uint32"
               /\ DictGet(ap_params, n) = Val("int", 0)


\* The array a field is given: the imported one, else the literal of the
\* object's template entry, else none.
SuppliedArray(f) ==
    IF imported_params.k = "dict" /\ imported_params.v # <<>> /\ DictHas(imported_params, f.name)
    THEN DictGet(imported_params, f.name)
    ELSE IF DictHas(TemplateObjOf(objects, obj_type).defaults, f.name)
    THEN DictGet(TemplateObjOf(objects, obj_type).defaults, f.name)
    ELSE Val("list", <<>>)

\* C24: after a successful application, a primitive-subtype array field of
\* declared size N that was given an array a of length k < N has a resolved
\* value whose first k elements are the elements of a, in order, and whose
\* positions k..N-1 hold the default.
C24_PaddingKeepsElements ==
    ap_result.success =>
        \A i \in 1..Len(AppliedFields) :
            LET f == AppliedFields[i]
                a == SuppliedArray(f)
                r == DictGet(ap_params, f.name)
            IN  (IsPrimitiveArray(f) /\ a.k = "list" /\ Len(a.v) < f.array_size) =>
                    /\ Len(r.v) = f.array_size
                    /\ \A n \in 1..Len(a.v) : r.v[n] = a.v[n]
                    /\ \A n \in (Len(a.v) + 1)..f.array_size :
                           r.v[n] = SubtypeZero(TypeLower(f.subtype))


(***************************************************************************)
(* The parent merge of an inline sub-struct field, turn by turn            *)
(* (hson_template.py lines 316-326)                                        *)
(***************************************************************************)
\* The longest field list that fits in memory.
MaxFields == 8

\* Lines 316-318: the field's type names a struct of the template;
\* parent = sub_struct_def.get("parent").
MergeStart(ftype) ==
    /\ mg_pc = "idle"
    /\ ftype \in DOMAIN structs
    /\ mg_sub' = ftype
    /\ mg_parent' = structs[ftype].parent
    /\ mg_turns' = 0
    /\ mg_pc' = "loop"
    /\ UNCHANGED <<tdVars, rsVars, msVars, ntVars, apVars, trVars, imVars>>

\* One test of `while parent:` and the turn it leads to (lines 319-326):
\* no parent or an undefined one ends the loop; a defined one has its
\* fields appended to the sub-struct's list in the schema, and its own
\* parent is the next one.  A list that outgrows memory makes extend raise
\* MemoryError, which the except clause of line 377 receives.
MergeTurn ==
    /\ mg_pc = "loop"
    /\ IF mg_parent = "" \/ mg_parent \notin DOMAIN structs
       THEN /\ mg_pc' = "done"
            /\ UNCHANGED <<structs, mg_parent, mg_turns>>
       ELSE IF Len(structs[mg_sub].fields) + Len(structs[mg_parent].fields) > MaxFields
       THEN /\ mg_pc' = "raised"
            /\ UNCHANGED <<structs, mg_parent, mg_turns>>
       ELSE /\ structs' = [structs EXCEPT ![mg_sub].fields = @ \o structs[mg_parent].fields]
            /\ mg_parent' = structs[mg_parent].parent
            /\ mg_turns' = mg_turns + 1
            /\ UNCHANGED mg_pc
    /\ UNCHANGED <<mg_sub, enums, objects, rsVars, msVars, ntVars, apVars, trVars, imVars>>

InitMerge ==
    /\ structs \in ResolveSchemas
    /\ enums = NoEnums
    /\ objects = EmptyDict
    /\ Idle({})

\* The interpreter runs the loop: a turn that can be taken is taken.
SpecMerge ==
    InitMerge /\ [][(\E ftype \in ResolveNames : MergeStart(ftype)) \/ MergeTurn]_vars
              /\ WF_vars(MergeTurn)

\* C25: the parent merge of an inline sub-struct field comes to an end for
\* every schema, one with a cyclic parent chain included: it merges each
\* struct of the schema at most once, so the body of its loop runs at most
\* as many times as the schema has structs, and it does not end by
\* running out of memory.
C25_MergeTerminates ==
    /\ mg_turns <= Cardinality(DOMAIN structs)
    /\ mg_pc # "raised"


(***************************************************************************)
(* Claims about the outcome sets of the transfer and about re-nesting      *)
(***************************************************************************)
\* C26: the sets transferred and not_transferred that one transfer builds
\* for an object have no name in common, for the object as for every
\* later selected object.
C26_SetsDisjoint ==
    /\ transferred \cap not_transferred = {}
    /\ \A k \in 1..Len(later_sets) :
           later_sets[k].transferred \cap later_sets[k].not_transferred = {}


\* The type words a record name ends in.
RecordTypes == {Word.float, Word.int, Word.bool, Word.enum, Word.vector, Word.list}

\* C27: after a successful application the object has exactly one record
\* per key of the flat map handed to update_hson_parameters, named
\* {key}:{type} with type one of float, int, bool, enum, vector, list.
C27_OneRecordPerKey ==
    ap_result.success =>
        /\ Len(hson_parameters) = Len(ap_params.v)
        /\ \A n \in 1..Len(ap_params.v) :
               \E i \in 1..Len(hson_parameters) :
                   /\ \E ty \in RecordTypes :
                          hson_parameters[i].name = DictKeys(ap_params)[n] \o <<":">> \o ty
                   /\ \A j \in 1..Len(hson_parameters) :
                          (\E ty \in RecordTypes :
                              hson_parameters[j].name = DictKeys(ap_params)[n] \o <<":">> \o ty)
                             => j = i


(***************************************************************************)
(* Claims about the object after the call                                  *)
(***************************************************************************)
\* C28: after a successful application every record with options has an
\* option selected, and its string_value is the value of the selected
\* option: the stored string and the flags do not disagree.
C28_StringMatchesSelection ==
    ap_result.success =>
        \A i \in 1..Len(hson_parameters) :
            LET items == hson_parameters[i].enum_items
            IN  items # <<>> =>
                    /\ \E n \in 1..Len(items) : items[n].selected
                    /\ \A n \in 1..Len(items) :
                           items[n].selected => hson_parameters[i].string_value = items[n].value


\* The object's type has no template entry, the entry names no struct, or
\* the template does not define the struct it names.
LookupFails ==
    \/ TemplateObjOf(objects, obj_type) = NoneV
    \/ TemplateObjOf(objects, obj_type).struct = ""
    \/ TemplateObjOf(objects, obj_type).struct \notin DOMAIN structs

\* C29: a call that fails because the object type, its struct name or the
\* struct definition is not found returns success = false and leaves the
\* object's hson_parameters and its hson_uuid as they were.
C29_FailureLeavesObject ==
    [][(LookupFails /\ ap_calls' = ap_calls + 1)
          => /\ ~ap_result'.success
             /\ hson_parameters' = hson_parameters
             /\ hson_uuid' = hson_uuid]_vars

\* A call failed on a lookup for an object that carried a record and an
\* id from an earlier import, and the object still carries both.
C29_Witness ==
    /\ ap_calls > 0
    /\ LookupFails
    /\ ~ap_result.success
    /\ hson_parameters # <<>>
    /\ hson_parameters[1].name = <<"o", "l", "d", ":">> \o Word.float
    /\ hson_uuid = "{OLD}"


(***************************************************************************)
(* Imports of records with a parentId                                      *)
(***************************************************************************)
\* The records of the files: the first names the last as its parent or the
\* last the first, and the two are in one chunk or in two.
ParentedFiles(o) ==
    LET Plain(n) == [i \in 1..n |-> [op |-> o, n |-> i, type |-> Nm.Dup, parent |-> 0]]
    IN  UNION {{[Plain(n) EXCEPT ![1].parent = n], [Plain(n) EXCEPT ![n].parent = 1]} :
                  n \in {MaxShort, batch_size + 1}}

\* One HSON import of such files, alone or with a second HSON import of
\* one record started beside it.
InitParenting ==
    /\ \E c \in {x \in ApplyCases : x.obj_type = Nm.Dup /\ x.imported = NoneV} :
          /\ structs = c.structs
          /\ objects = c.objects
          /\ enums = c.enums
    /\ \E f1 \in ParentedFiles(1) :
          \/ im_ops = <<ImportOperator("hson", f1)>>
          \/ im_ops = <<ImportOperator("hson", f1),
                        ImportOperator("hson", <<[op |-> 2, n |-> 1, type |-> Nm.Dup,
                                                  parent |-> 0]>>)>>
    /\ im_disk \in {[exists |-> TRUE, valid |-> TRUE, mtime |-> 1, version |-> 1],
                    [exists |-> FALSE, valid |-> FALSE, mtime |-> 0, version |-> 0]}
    /\ Idle({"import"})

SpecParenting ==
    InitParenting /\ [][\/ \E o \in 1..2 : Execute(o) \/ ProcessItem(o) \/ EmptyTick(o)
                        \/ TemplateFileEvent]_vars

(***************************************************************************)
(* Claims about the parenting of imported objects                          *)
(***************************************************************************)
\* C30: when an HSON import has reported completion, every object it
\* imported whose record names as parent another record it imported has
\* that object as its parent, whichever of the two came first and whatever
\* chunks they fell into, and no such object carries the marker any more.
C30_DeferredParenting ==
    \A o \in 1..Len(im_ops) :
        (im_ops[o].kind = "hson" /\ im_ops[o].status = "finished") =>
            \A i \in 1..Len(im_ops[o].imported) :
                LET rec == im_ops[o].imported[i]
                IN  (rec.parent # 0 /\ ParentImported(im_ops[o].imported, rec, rec.parent)) =>
                        /\ im_ops[o].linked[i].parent = rec.parent
                        /\ im_ops[o].linked[i].marker = 0

\* A finished HSON import took two TIMER events, its first record names
\* the last one as its parent, and the object of the first has the object
\* of the last, imported a chunk later, as its parent and no marker.
C30_Witness ==
    \E o \in 1..Len(im_ops) :
        /\ im_ops[o].kind = "hson" /\ im_ops[o].status = "finished"
        /\ Len(im_ops[o].returns) = 2
        /\ Len(im_ops[o].imported) = batch_size + 1
        /\ im_ops[o].imported[1].parent = batch_size + 1
        /\ im_ops[o].imported[batch_size + 1].n = batch_size + 1
        /\ im_ops[o].linked[1] = [parent |-> batch_size + 1, marker |-> 0]


=============================================================================
